---------------------------- MODULE Spec2Model ----------------------------
(***************************************************************************)
(* A model of the request-forwarding core of the NestJS API gateway:       *)
(*   - CircuitBreakerService   (gateway/circuit-breaker)                   *)
(*   - AdvancedRateLimitService (gateway/rate-limit)                       *)
(*   - ProxyService.forwardRequest and GatewayController.handleRequest     *)
(*                                                                         *)
(* Time is the value of Date.now() in milliseconds.  One handler of the    *)
(* services is synchronous JavaScript and runs to completion, so each      *)
(* handler is one action and reads one clock value.                        *)
(***************************************************************************)
EXTENDS Integers, Sequences, FiniteSets, TLC

VARIABLES
    now,              \* Date.now()
    ticks,            \* number of clock advances made so far (bounds the run)
    cfg,              \* the CircuitBreakerConfig of the route (threshold, timeout, monitorWindow)
    circuitBreakers,  \* CircuitBreakerService.circuitBreakers : Map<key, CircuitBreakerInstance>
    lastOp,           \* the service call made by the last step, with what it returned
    hist,             \* history of the calls made so far (read by properties only)
    rules,            \* the RateLimitRule[] the interceptor passes to checkRateLimit
    windows,          \* AdvancedRateLimitService.windows : Map<key, RateLimitWindow>
    rlLast,           \* the last rate-limiter call, with what it returned
    rlHist,           \* history of the rate-limiter calls (read by properties only)
    route,            \* the matched RouteConfig: retries, and whether its error texts hold a '4'
    req,              \* the forwardRequest call in flight: its position, attempt and outcome
    pipeHist,         \* history of the upstream calls (read by properties only)
    cache,            \* CacheService.cache : Map<key, CacheEntry>, in the Map's insertion order
    cacheStats,       \* CacheService.stats
    chLast,           \* the last cache call, with what it returned
    routes,           \* RouteConfigService.routes : Map<routeKey, RouteConfig> (algorithm, targets)
    roundRobinCounters, \* LoadBalancerService.roundRobinCounters : Map<routeKey, number>
    connectionCounts, \* LoadBalancerService.connectionCounts : Map<targetUrl, number>
    lbLast,           \* the last load-balancer call, with its input and what it returned
    lbHist,           \* history of the selections made (read by properties only)
    gw,               \* the request passing the global interceptors, and how it was answered
    hc,               \* HealthCheckService: isShuttingDown, healthCheckIntervals, the probes in flight
    rt                \* RouteConfigService.routes in insertion order, and the request handleRequest answers

cbVars == <<cfg, circuitBreakers, lastOp, hist>>
rlVars == <<rules, windows, rlLast, rlHist>>
plVars == <<route, req, pipeHist>>
chVars == <<cache, cacheStats, chLast>>
lbVars == <<routes, roundRobinCounters, connectionCounts, lbLast, lbHist>>
gwVars == <<gw>>
hcVars == <<hc>>
rtVars == <<rt>>
vars == <<now, ticks, cfg, circuitBreakers, lastOp, hist, rules, windows, rlLast, rlHist,
          route, req, pipeHist, cache, cacheStats, chLast,
          routes, roundRobinCounters, connectionCounts, lbLast, lbHist, gw, hc, rt>>

-----------------------------------------------------------------------------
(* Bounds of the model *)

MaxTicks == 3
MaxFailures == 3
MaxThreshold == 2
MaxLimit == 2
MaxChecks == 3
MaxRLTicks == 2

(* Program constants *)

maxIdleTime == 300000

Null == 0 - 1

\* generateKey(routeId, targetUrl) of the (route, replica) pairs in use
Keys == {"r1:http://a"}

\* Date.now() of a running process is far larger than maxIdleTime.
StartTime == maxIdleTime + 1

\* timeout and monitorWindow in ms: shorter than, equal to and longer than each other
Timeouts == {1, 2}
MonitorWindows == {1, 2}

Configs ==
    [threshold : 1..MaxThreshold, timeout : Timeouts, monitorWindow : MonitorWindows]

WithEnabled(config, en) ==
    [enabled |-> en, threshold |-> config.threshold, timeout |-> config.timeout,
     monitorWindow |-> config.monitorWindow]

Max2(a, b) == IF a >= b THEN a ELSE b

\* `date?.getTime() || 0`
TimeOrZero(t) == IF t = Null THEN 0 ELSE t

MapPut(m, k, v) == [x \in DOMAIN m \cup {k} |-> IF x = k THEN v ELSE m[x]]

MapDelete(m, ks) == [x \in DOMAIN m \ ks |-> m[x]]

-----------------------------------------------------------------------------
(* CircuitBreakerService.  The statistics counters that no decision reads   *)
(* (successCount, totalRequests, totalFailures, totalSuccesses) and the     *)
(* fields windowStart and config are left out of the instance.              *)

StateOf(cbs, k) == IF k \in DOMAIN cbs THEN cbs[k].state ELSE "ABSENT"

createCircuitBreaker(id) ==
    [id |-> id, state |-> "CLOSED", failureCount |-> 0,
     lastFailureTime |-> Null, lastSuccessTime |-> Null,
     nextAttemptTime |-> Null, failureWindow |-> <<>>]

getCircuitBreaker(cbs, key) ==
    IF key \in DOMAIN cbs THEN cbs ELSE MapPut(cbs, key, createCircuitBreaker(key))

\* Mutant: closing keeps the failure window.
transitionToClosed_KeepWindow(cb) ==
    [cb EXCEPT !.state = "CLOSED", !.failureCount = 0, !.nextAttemptTime = Null]

transitionToClosed(cb) ==
    [cb EXCEPT !.state = "CLOSED", !.failureCount = 0,
               !.nextAttemptTime = Null, !.failureWindow = <<>>]

\* Mutant: opening leaves the retry time unset.
transitionToOpen_NoRetryTime(cb, config, t) ==
    [cb EXCEPT !.state = "OPEN", !.nextAttemptTime = Null]

transitionToOpen(cb, config, t) ==
    [cb EXCEPT !.state = "OPEN", !.nextAttemptTime = t + config.timeout]

\* Mutant: the probe transition closes the breaker at once.
transitionToHalfOpen_Closes(cb) ==
    [cb EXCEPT !.state = "CLOSED", !.nextAttemptTime = Null]

transitionToHalfOpen(cb) ==
    [cb EXCEPT !.state = "HALF_OPEN", !.nextAttemptTime = Null]

KeepNewer(time, cutoffTime) == time > cutoffTime

cleanupWindow(cb, t, windowSize) ==
    [cb EXCEPT !.failureWindow =
        SelectSeq(@, LAMBDA time : KeepNewer(time, t - windowSize))]

\* canExecute: the value returned and the map afterwards.
\* Mutants: the retry time is compared one millisecond early, or strictly.
AttemptDue_Early(t, nextAttemptTime) == t + 1 >= nextAttemptTime

AttemptDue_Late(t, nextAttemptTime) == t > nextAttemptTime

AttemptDue(t, nextAttemptTime) == t >= nextAttemptTime

canExecute(cbs, key, config, t) ==
    IF ~config.enabled THEN [ret |-> TRUE, cbs |-> cbs]
    ELSE LET m == getCircuitBreaker(cbs, key)
             cb == m[key]
         IN CASE cb.state = "CLOSED" -> [ret |-> TRUE, cbs |-> m]
              [] cb.state = "OPEN" ->
                    IF cb.nextAttemptTime # Null /\ AttemptDue(t, cb.nextAttemptTime)
                    THEN [ret |-> TRUE, cbs |-> MapPut(m, key, transitionToHalfOpen(cb))]
                    ELSE [ret |-> FALSE, cbs |-> m]
              [] cb.state = "HALF_OPEN" -> [ret |-> TRUE, cbs |-> m]
              [] OTHER -> [ret |-> FALSE, cbs |-> m]

\* Mutant: a success closes the breaker without emptying its failure window.
recordSuccess_KeepsWindow(cbs, key, config, t) ==
    IF ~config.enabled THEN cbs
    ELSE LET m == getCircuitBreaker(cbs, key)
             cb1 == [m[key] EXCEPT !.lastSuccessTime = t]
             cb2 == cleanupWindow(cb1, t, config.monitorWindow)
             cb3 == IF cb2.state \in {"HALF_OPEN", "OPEN"}
                    THEN [cb2 EXCEPT !.state = "CLOSED", !.failureCount = 0,
                                     !.nextAttemptTime = Null]
                    ELSE cb2
         IN MapPut(m, key, cb3)

recordSuccess(cbs, key, config, t) ==
    IF ~config.enabled THEN cbs
    ELSE LET m == getCircuitBreaker(cbs, key)
             cb1 == [m[key] EXCEPT !.lastSuccessTime = t]
             cb2 == cleanupWindow(cb1, t, config.monitorWindow)
             cb3 == IF cb2.state \in {"HALF_OPEN", "OPEN"}
                    THEN transitionToClosed(cb2) ELSE cb2
         IN MapPut(m, key, cb3)

\* Mutant: the breaker opens only above the threshold.
ShouldOpen_Above(windowLength, threshold) == windowLength > threshold

ShouldOpen(windowLength, threshold) == windowLength >= threshold

\* Mutant: failures are recorded under a disabled config as well.
recordFailure_Disabled(cbs, key, config, t) ==
    LET m == getCircuitBreaker(cbs, key)
        cb1 == [m[key] EXCEPT !.failureCount = @ + 1,
                              !.lastFailureTime = t,
                              !.failureWindow = Append(@, t)]
        cb2 == cleanupWindow(cb1, t, config.monitorWindow)
        cb3 == IF ShouldOpen(Len(cb2.failureWindow), config.threshold)
               THEN transitionToOpen(cb2, config, t) ELSE cb2
    IN MapPut(m, key, cb3)

recordFailure(cbs, key, config, t) ==
    IF ~config.enabled THEN cbs
    ELSE LET m == getCircuitBreaker(cbs, key)
             cb1 == [m[key] EXCEPT !.failureCount = @ + 1,
                                   !.lastFailureTime = t,
                                   !.failureWindow = Append(@, t)]
             cb2 == cleanupWindow(cb1, t, config.monitorWindow)
             cb3 == IF ShouldOpen(Len(cb2.failureWindow), config.threshold)
                    THEN transitionToOpen(cb2, config, t) ELSE cb2
         IN MapPut(m, key, cb3)

\* reset: the value returned and the map afterwards.
reset(cbs, key) ==
    IF key \in DOMAIN cbs
    THEN [ret |-> TRUE, cbs |-> MapPut(cbs, key, transitionToClosed(cbs[key]))]
    ELSE [ret |-> FALSE, cbs |-> cbs]

resetAll(cbs) ==
    [n |-> Cardinality(DOMAIN cbs),
     cbs |-> [k \in DOMAIN cbs |-> transitionToClosed(cbs[k])]]

IsIdle(cb, t) ==
    t - Max2(TimeOrZero(cb.lastSuccessTime), TimeOrZero(cb.lastFailureTime)) > maxIdleTime

cleanup(cbs, t) ==
    LET idle == {k \in DOMAIN cbs : IsIdle(cbs[k], t)}
    IN [n |-> Cardinality(idle), cbs |-> MapDelete(cbs, idle)]

-----------------------------------------------------------------------------
(* History kept for the properties: per key, whether the breaker has ever   *)
(* been OPEN, which calls were made since it was last OPEN, and the latest  *)
(* next_attempt an opening has set.                                         *)

NoOp == [op |-> "init", key |-> "", en |-> FALSE, ret |-> FALSE, pre |-> "ABSENT"]

\* `pre` is the state the breaker of `key` was in when the call was made.
Op(name, key, en, ret) ==
    [op |-> name, key |-> key, en |-> en, ret |-> ret, pre |-> StateOf(circuitBreakers, key)]

HistInit ==
    [everOpen |-> {}, succSince |-> {}, adminSince |-> {}, openUntil |-> [k \in Keys |-> 0]]

\* The history after a step that made the calls `succ` (recordSuccess, enabled) and
\* `admin` (reset, resetAll, removal by cleanup) on the given keys and left the map `cbs`.
HistNext(h, cbs, succ, admin) ==
    LET open == {k \in Keys : StateOf(cbs, k) = "OPEN"}
    IN [everOpen |-> h.everOpen \cup open,
        succSince |-> (h.succSince \cup succ) \ open,
        adminSince |-> (h.adminSince \cup admin) \ open,
        openUntil |-> [k \in Keys |->
            IF k \in admin THEN 0
            ELSE IF k \in open THEN Max2(h.openUntil[k], cbs[k].nextAttemptTime)
            ELSE h.openUntil[k]]]

-----------------------------------------------------------------------------
(* AdvancedRateLimitService *)

\* remainingHits: Infinity of the initial mostRestrictive result
Infinity == MaxLimit + 1

\* Window sizes in ms of a rule, and the steps of the clock while the limiter runs
RLWindows == {1000, 2000}
RLTickSteps == {1, 1000}

\* A request as the limiter reads it: the client ip (getClientIp) and user?.sub
\* ("none": the request carries no user).
Requests == [ip : {"10.0.0.1"}, user : {"none", "u1"}]

\* createRules: the rules of a config that may hold global, perUser and perIP
\* entries (limit 0 stands for an absent entry), in that order.
createRules(global, perUser, perIP, window) ==
    (IF global > 0
     THEN <<[key |-> <<"global">>, limit |-> global, window |-> window, skipIf |-> "never"]>>
     ELSE <<>>)
    \o (IF perUser > 0
        THEN <<[key |-> <<"user:", "{user}">>, limit |-> perUser, window |-> window,
                skipIf |-> "noUser"]>>
        ELSE <<>>)
    \o (IF perIP > 0
        THEN <<[key |-> <<"ip:", "{ip}">>, limit |-> perIP, window |-> window, skipIf |-> "never"]>>
        ELSE <<>>)

\* The per-user rule is absent or has limit 1.
RuleLists ==
    {createRules(g, u, i, w) : g \in 0..MaxLimit, u \in 0..1, i \in 0..MaxLimit, w \in RLWindows}

\* rule.skipIf && rule.skipIf(request)
Skipped(rule, request) == rule.skipIf = "noUser" /\ request.user = "none"

\* generateKey: every token of the pattern replaced by the request's value
generateKey(request, keyPattern) ==
    [j \in DOMAIN keyPattern |->
        CASE keyPattern[j] = "{ip}" -> request.ip
          [] keyPattern[j] = "{user}" -> (IF request.user = "none" THEN "anonymous" ELSE request.user)
          [] OTHER -> keyPattern[j]]

\* Math.ceil(a / b) for a >= 0, b > 0
Ceil(a, b) == (a + b - 1) \div b

NoWindows == [k \in {} |-> [count |-> 0, resetTime |-> 0, firstRequest |-> 0]]

\* Mutant: a window is still live at its reset time.
Expired_Strict(t, resetTime) == t > resetTime

Expired(t, resetTime) == t >= resetTime

\* Mutant: one more check than the limit is let through.
LimitReached_Above(count, limit) == count > limit

LimitReached(count, limit) == count >= limit

\* Mutant: a denied check is counted in the window as well.
checkSingleRule_CountsDenied(ws, key, rule, t) ==
    LET fresh == key \notin DOMAIN ws \/ Expired(t, ws[key].resetTime)
        w == IF fresh
             THEN [count |-> 0, resetTime |-> t + rule.window, firstRequest |-> t]
             ELSE ws[key]
    IN IF LimitReached(w.count, rule.limit)
       THEN [result |-> [allowed |-> FALSE, totalHits |-> w.count, remainingHits |-> 0,
                         resetTime |-> w.resetTime,
                         retryAfter |-> Ceil(w.resetTime - t, 1000)],
             windows |-> MapPut(ws, key, [w EXCEPT !.count = @ + 1])]
       ELSE [result |-> [allowed |-> TRUE, totalHits |-> w.count + 1,
                         remainingHits |-> rule.limit - (w.count + 1),
                         resetTime |-> w.resetTime, retryAfter |-> Null],
             windows |-> MapPut(ws, key, [w EXCEPT !.count = @ + 1])]

\* checkSingleRule: the result returned and the map afterwards.
checkSingleRule(ws, key, rule, t) ==
    LET fresh == key \notin DOMAIN ws \/ Expired(t, ws[key].resetTime)
        w == IF fresh
             THEN [count |-> 0, resetTime |-> t + rule.window, firstRequest |-> t]
             ELSE ws[key]
    IN IF LimitReached(w.count, rule.limit)
       THEN [result |-> [allowed |-> FALSE, totalHits |-> w.count, remainingHits |-> 0,
                         resetTime |-> w.resetTime,
                         retryAfter |-> Ceil(w.resetTime - t, 1000)],
             windows |-> MapPut(ws, key, w)]
       ELSE [result |-> [allowed |-> TRUE, totalHits |-> w.count + 1,
                         remainingHits |-> rule.limit - (w.count + 1),
                         resetTime |-> w.resetTime, retryAfter |-> Null],
             windows |-> MapPut(ws, key, [w EXCEPT !.count = @ + 1])]

\* Mutant: the result of the last rule evaluated is reported.
MoreRestrictive_Last(result, mostRestrictive) == result

MoreRestrictive(result, mostRestrictive) ==
    IF result.remainingHits < mostRestrictive.remainingHits THEN result ELSE mostRestrictive

\* The loop of checkRateLimit from rule i on. `evals` lists the rules evaluated so far:
\* the rule's index, its key and the result checkSingleRule gave.
RECURSIVE checkRules(_, _, _, _, _, _, _)
checkRules(ws, request, rs, i, t, mostRestrictive, evals) ==
    IF i > Len(rs) THEN [result |-> mostRestrictive, windows |-> ws, evals |-> evals]
    ELSE IF Skipped(rs[i], request)
         THEN checkRules(ws, request, rs, i + 1, t, mostRestrictive, evals)
         ELSE LET key == generateKey(request, rs[i].key)
                  r == checkSingleRule(ws, key, rs[i], t)
                  ev == Append(evals, [rule |-> i, key |-> key, result |-> r.result])
              IN IF ~r.result.allowed
                 THEN [result |-> r.result, windows |-> r.windows, evals |-> ev]
                 ELSE checkRules(r.windows, request, rs, i + 1, t,
                                 MoreRestrictive(r.result, mostRestrictive), ev)

checkRateLimit(ws, request, rs, t) ==
    checkRules(ws, request, rs, 1, t,
               [allowed |-> TRUE, totalHits |-> 0, remainingHits |-> Infinity,
                resetTime |-> t, retryAfter |-> Null],
               <<>>)

cleanupExpiredWindows(ws, t) ==
    MapDelete(ws, {k \in DOMAIN ws : t >= ws[k].resetTime})

resetRateLimit(ws, key) == MapDelete(ws, {key})

resetAllRateLimits(ws) == MapDelete(ws, DOMAIN ws)

\* The keys the rules can produce
RLKeys == {generateKey(q, rules[i].key) : q \in Requests, i \in DOMAIN rules}

-----------------------------------------------------------------------------
(* History of the limiter: when it runs a single rule, per key the times of  *)
(* the allowed checks since the key was last reset by the admin (`allowed`); *)
(* and the number of checkRateLimit calls made (`checks`).                   *)

NoCheck == [op |-> "init", request |-> [ip |-> "", user |-> "none"],
            result |-> [allowed |-> TRUE, totalHits |-> 0, remainingHits |-> 0,
                        resetTime |-> 0, retryAfter |-> Null],
            evals |-> <<>>]

RLHistInit == [checks |-> 0, allowed |-> <<>>]

LogOf(log, key) == IF key \in DOMAIN log THEN log[key] ELSE <<>>

RLHistAfter(h, evals, t, single) ==
    IF single /\ evals # <<>> /\ evals[1].result.allowed
    THEN [h EXCEPT !.allowed = MapPut(@, evals[1].key, Append(LogOf(@, evals[1].key), t))]
    ELSE h

-----------------------------------------------------------------------------
(* The state of the request pipeline while no request is in flight *)

NoRoute == [retries |-> 0, has4 |-> FALSE]

\* (failed, below500: the attempts that failed with 5xx, connect error or timeout
\* and those answered below 500; failures, successes: the recordFailure and
\* recordSuccess calls made; all four are read by properties only)
NoRequest == [pc |-> "idle", via |-> "none", cb |-> FALSE, key |-> "", attempt |-> 0, calls |-> 0,
              result |-> "none", status |-> 0, body |-> "none", expectDeny |-> FALSE,
              failed |-> 0, below500 |-> 0, failures |-> 0, successes |-> 0]

PipeHistInit == [requests |-> 0, fails |-> <<>>, openedAt |-> Null]

-----------------------------------------------------------------------------
(* The cache and the load balancer while they are not in use *)

NoCacheCall == [op |-> "init"]

CacheIdle ==
    /\ cache = <<>>
    /\ cacheStats = [hits |-> 0, misses |-> 0, evictions |-> 0]
    /\ chLast = NoCacheCall

NoSelection == [op |-> "init"]

LoadBalancerIdle ==
    /\ routes = <<>>
    /\ roundRobinCounters = <<>>
    /\ connectionCounts = <<>>
    /\ lbLast = NoSelection
    /\ lbHist = <<>>

\* No request is passing the interceptors
NoGatewayRequest == [pc |-> "idle", requests |-> 0]

GatewayIdle == gw = NoGatewayRequest

\* The health monitor before onModuleInit, and an empty route registry
NoMonitor == [isShuttingDown |-> FALSE]

MonitorIdle == hc = NoMonitor

NoRegistry == [routes |-> <<>>]

RegistryIdle == rt = NoRegistry

-----------------------------------------------------------------------------
(* The calls of AdvancedRateLimitService as actions *)

InitRL ==
    /\ now = StartTime
    /\ ticks = 0
    /\ cfg = CHOOSE c \in Configs : TRUE
    /\ circuitBreakers = [k \in {} |-> createCircuitBreaker(k)]
    /\ lastOp = NoOp
    /\ hist = HistInit
    /\ rules \in RuleLists
    /\ windows = NoWindows
    /\ rlLast = NoCheck
    /\ rlHist = RLHistInit
    /\ route = NoRoute
    /\ req = NoRequest
    /\ pipeHist = PipeHistInit
    /\ CacheIdle
    /\ LoadBalancerIdle
    /\ GatewayIdle
    /\ MonitorIdle
    /\ RegistryIdle

RLTick(d) ==
    /\ ticks < MaxRLTicks
    /\ now' = now + d
    /\ ticks' = ticks + 1
    /\ rlLast' = [NoCheck EXCEPT !.op = "tick"]
    /\ UNCHANGED <<cbVars, rules, windows, rlHist, plVars, chVars, lbVars, gwVars, hcVars, rtVars>>

CheckRateLimit(request) ==
    LET r == checkRateLimit(windows, request, rules, now)
    IN /\ rlHist.checks < MaxChecks
       /\ windows' = r.windows
       /\ rlLast' = [op |-> "checkRateLimit", request |-> request, result |-> r.result,
                     evals |-> r.evals]
       /\ rlHist' = [RLHistAfter(rlHist, r.evals, now, Len(rules) = 1)
                        EXCEPT !.checks = @ + 1]
       /\ UNCHANGED <<now, ticks, cbVars, rules, plVars, chVars, lbVars, gwVars, hcVars, rtVars>>

CleanupExpiredWindows ==
    /\ windows' = cleanupExpiredWindows(windows, now)
    /\ rlLast' = [NoCheck EXCEPT !.op = "cleanupExpiredWindows"]
    /\ UNCHANGED <<now, ticks, cbVars, rules, rlHist, plVars, chVars, lbVars, gwVars, hcVars, rtVars>>

ResetRateLimit(key) ==
    /\ windows' = resetRateLimit(windows, key)
    /\ rlLast' = [NoCheck EXCEPT !.op = "resetRateLimit"]
    /\ rlHist' = [rlHist EXCEPT !.allowed = MapDelete(@, {key})]
    /\ UNCHANGED <<now, ticks, cbVars, rules, plVars, chVars, lbVars, gwVars, hcVars, rtVars>>

ResetAllRateLimits ==
    /\ windows' = resetAllRateLimits(windows)
    /\ rlLast' = [NoCheck EXCEPT !.op = "resetAllRateLimits"]
    /\ rlHist' = [rlHist EXCEPT !.allowed = <<>>]
    /\ UNCHANGED <<now, ticks, cbVars, rules, plVars, chVars, lbVars, gwVars, hcVars, rtVars>>

NextRL ==
    \/ \E d \in RLTickSteps : RLTick(d)
    \/ \E q \in Requests : CheckRateLimit(q)
    \/ CleanupExpiredWindows
    \/ \E key \in RLKeys : ResetRateLimit(key)
    \/ ResetAllRateLimits

SpecRL == InitRL /\ [][NextRL]_vars

-----------------------------------------------------------------------------
(* The calls of CircuitBreakerService as actions *)

Init ==
    /\ now = StartTime
    /\ ticks = 0
    /\ cfg \in Configs
    /\ circuitBreakers = [k \in {} |-> createCircuitBreaker(k)]
    /\ lastOp = NoOp
    /\ hist = HistInit
    /\ rules = <<>>
    /\ windows = NoWindows
    /\ rlLast = NoCheck
    /\ rlHist = RLHistInit
    /\ route = NoRoute
    /\ req = NoRequest
    /\ pipeHist = PipeHistInit
    /\ CacheIdle
    /\ LoadBalancerIdle
    /\ GatewayIdle
    /\ MonitorIdle
    /\ RegistryIdle

\* The clock advances by 1 ms, or (once) by an idle period of maxIdleTime.
Tick(d) ==
    /\ ticks < MaxTicks
    /\ d = maxIdleTime => now < StartTime + maxIdleTime
    /\ now' = now + d
    /\ ticks' = ticks + 1
    /\ lastOp' = Op("tick", "", FALSE, FALSE)
    /\ UNCHANGED <<cfg, circuitBreakers, hist, rlVars, plVars, chVars, lbVars, gwVars, hcVars, rtVars>>

CanExecute(k, en) ==
    LET r == canExecute(circuitBreakers, k, WithEnabled(cfg, en), now)
    IN /\ circuitBreakers' = r.cbs
       /\ lastOp' = Op("canExecute", k, en, r.ret)
       /\ hist' = HistNext(hist, r.cbs, {}, {})
       /\ UNCHANGED <<now, ticks, cfg, rlVars, plVars, chVars, lbVars, gwVars, hcVars, rtVars>>

RecordSuccess(k, en) ==
    LET m == recordSuccess(circuitBreakers, k, WithEnabled(cfg, en), now)
    IN /\ circuitBreakers' = m
       /\ lastOp' = Op("recordSuccess", k, en, FALSE)
       /\ hist' = HistNext(hist, m, IF en THEN {k} ELSE {}, {})
       /\ UNCHANGED <<now, ticks, cfg, rlVars, plVars, chVars, lbVars, gwVars, hcVars, rtVars>>

RecordFailure(k, en) ==
    LET m == recordFailure(circuitBreakers, k, WithEnabled(cfg, en), now)
    IN /\ k \in DOMAIN circuitBreakers => circuitBreakers[k].failureCount < MaxFailures
       /\ circuitBreakers' = m
       /\ lastOp' = Op("recordFailure", k, en, FALSE)
       /\ hist' = HistNext(hist, m, {}, {})
       /\ UNCHANGED <<now, ticks, cfg, rlVars, plVars, chVars, lbVars, gwVars, hcVars, rtVars>>

Reset(k) ==
    LET r == reset(circuitBreakers, k)
    IN /\ circuitBreakers' = r.cbs
       /\ lastOp' = Op("reset", k, TRUE, r.ret)
       /\ hist' = HistNext(hist, r.cbs, {}, IF r.ret THEN {k} ELSE {})
       /\ UNCHANGED <<now, ticks, cfg, rlVars, plVars, chVars, lbVars, gwVars, hcVars, rtVars>>

ResetAll ==
    LET r == resetAll(circuitBreakers)
    IN /\ circuitBreakers' = r.cbs
       /\ lastOp' = Op("resetAll", "", TRUE, FALSE)
       /\ hist' = HistNext(hist, r.cbs, {}, DOMAIN circuitBreakers)
       /\ UNCHANGED <<now, ticks, cfg, rlVars, plVars, chVars, lbVars, gwVars, hcVars, rtVars>>

Cleanup ==
    LET r == cleanup(circuitBreakers, now)
    IN /\ circuitBreakers' = r.cbs
       /\ lastOp' = Op("cleanup", "", TRUE, FALSE)
       /\ hist' = HistNext(hist, r.cbs, {}, DOMAIN circuitBreakers \ DOMAIN r.cbs)
       /\ UNCHANGED <<now, ticks, cfg, rlVars, plVars, chVars, lbVars, gwVars, hcVars, rtVars>>

TickSteps == {1, maxIdleTime}

Next ==
    \/ \E d \in TickSteps : Tick(d)
    \/ \E k \in Keys, en \in BOOLEAN : CanExecute(k, en)
    \/ \E k \in Keys, en \in BOOLEAN : RecordSuccess(k, en)
    \/ \E k \in Keys, en \in BOOLEAN : RecordFailure(k, en)
    \/ \E k \in Keys : Reset(k)
    \/ ResetAll
    \/ Cleanup

Spec == Init /\ [][Next]_vars

-----------------------------------------------------------------------------
(* GatewayController.handleRequest and ProxyService.forwardRequest *)

MaxRetries == 2
MaxRequests == 2
MaxPipeTicks == 2

\* What one fetch of the target can come to: a response with a status, a connect
\* error (TypeError of fetch), the AbortSignal timeout, or any other error.
Outcomes ==
    {[kind |-> "status", status |-> s] : s \in {200, 404, 500, 504}}
    \cup {[kind |-> k, status |-> 0] : k \in {"connect", "timeout", "other"}}

\* The decimal text of a status holds the character '4'
HasDigit4(n) == n % 10 = 4 \/ (n \div 10) % 10 = 4 \/ (n \div 100) % 10 = 4

\* makeRequest: the response returned (class "response") or the error thrown, with
\* whether error.message holds a '4'.  The text of a 5xx error holds the status;
\* that of a connect error or a timeout holds the target url (urlHas4).
makeRequest(outcome, urlHas4) ==
    CASE outcome.kind = "status" /\ outcome.status < 500 ->
            [class |-> "response", status |-> outcome.status, has4 |-> FALSE]
      [] outcome.kind = "status" /\ outcome.status >= 500 ->
            [class |-> "BadGatewayException", status |-> 0, has4 |-> HasDigit4(outcome.status)]
      [] outcome.kind = "connect" ->
            [class |-> "BadGatewayException", status |-> 0, has4 |-> urlHas4]
      [] outcome.kind = "timeout" ->
            [class |-> "RequestTimeoutException", status |-> 0, has4 |-> urlHas4]
      [] OTHER -> [class |-> "Error", status |-> 0, has4 |-> FALSE]

isCircuitBreakerEligibleError_NoTimeout(class) ==
    class \in {"BadGatewayException"}

\* (makeRequest has already turned the TypeError of fetch into a BadGatewayException)
isCircuitBreakerEligibleError(class) ==
    class \in {"BadGatewayException", "RequestTimeoutException"}

shouldRetry(error, attempt, maxRetries) ==
    IF attempt >= maxRetries THEN FALSE
    ELSE IF error.has4 THEN FALSE
    ELSE isCircuitBreakerEligibleError(error.class)

\* HttpException.getStatus() of the error a direct caller of forwardRequest receives
getStatus(class) ==
    CASE class = "BadGatewayException" -> 502
      [] class = "RequestTimeoutException" -> 408
      [] class = "ServiceUnavailableException" -> 503
      [] OTHER -> 500

\* The catch block of handleRequest: the status it answers for an error
ErrorStatus(class) ==
    CASE class = "NotFoundException" -> 404
      [] class = "BadGatewayException" -> 502
      [] OTHER -> 500

\* The request q ends with a response of the target or with an error of the class.
\* Through handleRequest the client gets the target's status and body, or the
\* status of the catch block with its {message, statusCode, traceId} body; a
\* direct caller of forwardRequest gets the response or the error itself, which
\* for a breaker denial carries getFallbackResponse(config).
Answer(q, class, status) ==
    [q EXCEPT !.pc = "done",
              !.result = class,
              !.status = IF class = "response" THEN status
                         ELSE IF q.via = "pipeline" THEN ErrorStatus(class)
                         ELSE getStatus(class),
              !.body = IF class = "response" THEN "upstream"
                       ELSE IF q.via = "pipeline" THEN "error"
                       ELSE IF class = "ServiceUnavailableException" THEN "fallback"
                       ELSE "error"]

\* History: the times of the retryable failures (5xx, connect error, timeout) the
\* target gave since its last response below 500, those older than monitorWindow
\* dropped; and the time at which they first numbered `threshold`.
Retryable(outcome) ==
    \/ outcome.kind = "status" /\ outcome.status >= 500
    \/ outcome.kind \in {"connect", "timeout"}

UpstreamSeen(h, outcome, t) ==
    IF Retryable(outcome)
    THEN LET f == SelectSeq(Append(h.fails, t), LAMBDA x : x > t - cfg.monitorWindow)
         IN [h EXCEPT !.fails = f,
                      !.openedAt = IF @ = Null /\ Len(f) >= cfg.threshold THEN t ELSE @]
    ELSE IF outcome.kind = "status"
         THEN [h EXCEPT !.fails = <<>>, !.openedAt = Null]
         ELSE h

\* `threshold` retryable failures within monitorWindow have been seen, no response
\* below 500 since, and less than `timeout` has passed since the last of them.
ExpectDeny == pipeHist.openedAt # Null /\ now < pipeHist.openedAt + cfg.timeout

\* The breaker configs of the routes the pipeline is run with
PipeConfigs == {c \in Configs : c.timeout = 2 /\ c.monitorWindow = 2}

InitPipe ==
    /\ now = StartTime
    /\ ticks = 0
    /\ cfg \in PipeConfigs
    /\ circuitBreakers = [k \in {} |-> createCircuitBreaker(k)]
    /\ lastOp = NoOp
    /\ hist = HistInit
    /\ rules = <<>>
    /\ windows = NoWindows
    /\ rlLast = NoCheck
    /\ rlHist = RLHistInit
    /\ route \in [retries : 0..MaxRetries, has4 : BOOLEAN]
    /\ req = NoRequest
    /\ pipeHist = PipeHistInit
    /\ CacheIdle
    /\ LoadBalancerIdle
    /\ GatewayIdle
    /\ MonitorIdle
    /\ RegistryIdle

PipeTick ==
    /\ ticks < MaxPipeTicks
    /\ now' = now + 1
    /\ ticks' = ticks + 1
    /\ UNCHANGED <<cbVars, rlVars, plVars, chVars, lbVars, gwVars, hcVars, rtVars>>

\* forwardRequest up to its first attempt.  cb: circuitBreakerConfig and routeId
\* were passed.
StartForward(via, cb, k) ==
    LET r == canExecute(circuitBreakers, k, WithEnabled(cfg, TRUE), now)
        q == [NoRequest EXCEPT !.via = via, !.cb = cb, !.key = k, !.expectDeny = ExpectDeny]
    IN /\ circuitBreakers' = IF cb THEN r.cbs ELSE circuitBreakers
       /\ req' = IF cb /\ ~r.ret THEN Answer(q, "ServiceUnavailableException", 0)
                 ELSE IF route.retries < 1 THEN Answer(q, "BadGatewayException", 0)
                 ELSE [q EXCEPT !.pc = "attempt", !.attempt = 1]
       /\ pipeHist' = [pipeHist EXCEPT !.requests = @ + 1]
       /\ UNCHANGED <<now, ticks, cfg, lastOp, hist, rlVars, route, chVars, lbVars, gwVars, hcVars, rtVars>>

\* handleRequest: forwardRequest(proxyRequest, selectedTarget, route.timeout,
\* route.retries), with neither circuitBreakerConfig nor routeId.
HandleRequest(k) ==
    /\ req.pc \in {"idle", "done"}
    /\ pipeHist.requests < MaxRequests
    /\ StartForward("pipeline", FALSE, k)

\* forwardRequest called with the route's circuitBreakerConfig and routeId
ForwardRequest(k) ==
    /\ req.pc \in {"idle", "done"}
    /\ pipeHist.requests < MaxRequests
    /\ StartForward("direct", TRUE, k)

\* The target answers the attempt in flight (or the attempt fails); the body of
\* the retry loop up to the return, the throw or the sleep.
UpstreamResponds(outcome) ==
    LET e == makeRequest(outcome, route.has4)
        en == WithEnabled(cfg, TRUE)
        ok == e.class = "response"
        eligible == isCircuitBreakerEligibleError(e.class)
        cbs == IF ~req.cb THEN circuitBreakers
               ELSE IF ok THEN recordSuccess(circuitBreakers, req.key, en, now)
               ELSE IF eligible THEN recordFailure(circuitBreakers, req.key, en, now)
               ELSE circuitBreakers
        q == [req EXCEPT !.calls = @ + 1,
                         !.failed = @ + (IF Retryable(outcome) THEN 1 ELSE 0),
                         !.below500 = @ + (IF outcome.kind = "status" /\ outcome.status < 500
                                           THEN 1 ELSE 0),
                         !.failures = @ + (IF req.cb /\ ~ok /\ eligible THEN 1 ELSE 0),
                         !.successes = @ + (IF req.cb /\ ok THEN 1 ELSE 0)]
    IN /\ req.pc = "attempt"
       /\ circuitBreakers' = cbs
       /\ req' = IF ok THEN Answer(q, "response", e.status)
                 ELSE IF shouldRetry(e, req.attempt, route.retries) THEN [q EXCEPT !.pc = "sleep"]
                 ELSE Answer(q, e.class, 0)
       /\ pipeHist' = UpstreamSeen(pipeHist, outcome, now)
       /\ UNCHANGED <<now, ticks, cfg, lastOp, hist, rlVars, route, chVars, lbVars, gwVars, hcVars, rtVars>>

\* Mutant: the breaker is asked again before every further attempt.
RetryAfterDelay_Checked ==
    LET r == canExecute(circuitBreakers, req.key, WithEnabled(cfg, TRUE), now)
    IN /\ req.pc = "sleep"
       /\ circuitBreakers' = IF req.cb THEN r.cbs ELSE circuitBreakers
       /\ req' = IF req.cb /\ ~r.ret THEN Answer(req, "ServiceUnavailableException", 0)
                 ELSE [req EXCEPT !.pc = "attempt", !.attempt = @ + 1]
       /\ UNCHANGED <<now, ticks, cfg, lastOp, hist, rlVars, route, pipeHist, chVars, lbVars,
                      gwVars, hcVars, rtVars>>

\* The sleep of calculateRetryDelay ends and the next attempt starts.
RetryAfterDelay ==
    /\ req.pc = "sleep"
    /\ req' = [req EXCEPT !.pc = "attempt", !.attempt = @ + 1]
    /\ UNCHANGED <<now, ticks, cbVars, rlVars, route, pipeHist, chVars, lbVars, gwVars, hcVars, rtVars>>

NextPipe ==
    \/ PipeTick
    \/ \E k \in Keys : HandleRequest(k)
    \/ \E k \in Keys : ForwardRequest(k)
    \/ \E outcome \in Outcomes : UpstreamResponds(outcome)
    \/ RetryAfterDelay

SpecPipe == InitPipe /\ [][NextPipe]_vars

-----------------------------------------------------------------------------
(* Properties of the circuit breaker *)

Present(k) == k \in DOMAIN circuitBreakers

\* The step just taken is the call `name` for key k with an enabled config.
Called(name, k) == lastOp'.op = name /\ lastOp'.key = k /\ lastOp'.en

WindowBefore(k) == IF Present(k) THEN circuitBreakers[k].failureWindow ELSE <<>>

\* C1: for an enabled breaker in CLOSED (or not yet created), recordFailure at time
\* `now` leaves as failure window the old window with `now` appended and every
\* entry of age >= monitorWindow removed; the breaker is OPEN with
\* nextAttemptTime = now + timeout exactly when that window holds at least
\* `threshold` entries, and stays CLOSED otherwise.
C1_RecordFailureInClosed ==
    [][\A k \in Keys :
        (Called("recordFailure", k) /\ StateOf(circuitBreakers, k) \in {"CLOSED", "ABSENT"}) =>
            LET kept == SelectSeq(Append(WindowBefore(k), now),
                                  LAMBDA time : now - time < cfg.monitorWindow)
                cb == circuitBreakers'[k]
            IN /\ cb.failureWindow = kept
               /\ IF Len(kept) >= cfg.threshold
                  THEN cb.state = "OPEN" /\ cb.nextAttemptTime = now + cfg.timeout
                  ELSE cb.state = "CLOSED" /\ cb.nextAttemptTime = Null]_vars

\* C1 witness: a recordFailure on a CLOSED breaker has opened it, after an earlier
\* failure that had left it CLOSED had aged out of the window.
C1_Witness ==
    \E k \in Keys :
        /\ lastOp = [op |-> "recordFailure", key |-> k, en |-> TRUE, ret |-> FALSE, pre |-> "CLOSED"]
        /\ Present(k)
        /\ circuitBreakers[k].state = "OPEN"
        /\ circuitBreakers[k].nextAttemptTime = now + cfg.timeout
        /\ Len(circuitBreakers[k].failureWindow) = cfg.threshold
        /\ circuitBreakers[k].failureCount > cfg.threshold

\* C2 as claimed: a canExecute (enabled config) never returns true before the
\* latest next_attempt that an opening of the breaker has set, whatever
\* recordSuccess and recordFailure calls arrive in between (admin reset and
\* cleanup clear the deadline).
C2_Original ==
    (lastOp.op = "canExecute" /\ lastOp.en /\ lastOp.ret) => now >= hist.openUntil[lastOp.key]

\* C2 amended: while the breaker is OPEN, a canExecute before next_attempt returns
\* false and leaves it OPEN, a recordFailure keeps it OPEN and never moves
\* next_attempt back, and the breaker leaves OPEN only by a canExecute at
\* now >= next_attempt, a recordSuccess, a reset/resetAll or a cleanup.
C2_Amended ==
    [][\A k \in Keys : StateOf(circuitBreakers, k) = "OPEN" =>
        LET cb == circuitBreakers[k]
            post == StateOf(circuitBreakers', k)
        IN /\ (Called("canExecute", k) /\ now < cb.nextAttemptTime) =>
                  (~lastOp'.ret /\ circuitBreakers' = circuitBreakers)
           /\ Called("recordFailure", k) =>
                  (post = "OPEN" /\ circuitBreakers'[k].nextAttemptTime >= cb.nextAttemptTime)
           /\ post # "OPEN" =>
                  \/ Called("canExecute", k) /\ now >= cb.nextAttemptTime /\ lastOp'.ret
                  \/ Called("recordSuccess", k)
                  \/ lastOp'.op \in {"reset", "resetAll", "cleanup"}]_vars

\* C2 witness: a canExecute is denied on an OPEN breaker that has taken a further
\* failure since it opened.
C2_Witness ==
    \E k \in Keys :
        /\ lastOp = [op |-> "canExecute", key |-> k, en |-> TRUE, ret |-> FALSE, pre |-> "OPEN"]
        /\ circuitBreakers[k].state = "OPEN"
        /\ circuitBreakers[k].failureCount > cfg.threshold
        /\ now < circuitBreakers[k].nextAttemptTime

\* C3: a canExecute (enabled config) on an OPEN breaker at now >= next_attempt
\* returns true and leaves it HALF_OPEN; on a HALF_OPEN or CLOSED breaker it
\* returns true and changes nothing; on a pair without a breaker it creates one
\* in CLOSED with an empty window and returns true.
C3_CanExecute ==
    [][\A k \in Keys : Called("canExecute", k) =>
        LET pre == StateOf(circuitBreakers, k)
        IN /\ (pre = "OPEN" /\ now >= circuitBreakers[k].nextAttemptTime) =>
                 (lastOp'.ret /\ circuitBreakers'[k].state = "HALF_OPEN")
           /\ pre \in {"HALF_OPEN", "CLOSED"} =>
                 (lastOp'.ret /\ circuitBreakers' = circuitBreakers)
           /\ pre = "ABSENT" =>
                 /\ lastOp'.ret
                 /\ StateOf(circuitBreakers', k) = "CLOSED"
                 /\ circuitBreakers'[k].failureWindow = <<>>
                 /\ circuitBreakers'[k].nextAttemptTime = Null]_vars

\* C3 witness: a canExecute made exactly at next_attempt has moved an OPEN
\* breaker to HALF_OPEN.
C3_Witness ==
    \E k \in Keys :
        /\ lastOp = [op |-> "canExecute", key |-> k, en |-> TRUE, ret |-> TRUE, pre |-> "OPEN"]
        /\ circuitBreakers[k].state = "HALF_OPEN"
        /\ now = hist.openUntil[k]

\* C4: a recordSuccess on a HALF_OPEN breaker leaves it CLOSED with an empty
\* failure window, failureCount 0 and no next_attempt; and a breaker is out of
\* CLOSED only when at least `threshold` failures were recorded since it was last
\* closed (or created).
C4_SuccessInHalfOpen ==
    /\ [][\A k \in Keys :
            (Called("recordSuccess", k) /\ StateOf(circuitBreakers, k) = "HALF_OPEN") =>
                /\ circuitBreakers'[k].state = "CLOSED"
                /\ circuitBreakers'[k].failureWindow = <<>>
                /\ circuitBreakers'[k].failureCount = 0
                /\ circuitBreakers'[k].nextAttemptTime = Null]_vars
    /\ [](\A k \in DOMAIN circuitBreakers :
            circuitBreakers[k].state # "CLOSED" =>
                /\ circuitBreakers[k].failureCount >= cfg.threshold
                /\ Len(circuitBreakers[k].failureWindow) <= circuitBreakers[k].failureCount)

\* C4 witness: a recordSuccess has just closed a HALF_OPEN breaker.
C4_Witness ==
    \E k \in Keys :
        /\ lastOp = [op |-> "recordSuccess", key |-> k, en |-> TRUE, ret |-> FALSE, pre |-> "HALF_OPEN"]
        /\ circuitBreakers[k].state = "CLOSED"
        /\ circuitBreakers[k].failureWindow = <<>>

\* C5 as claimed: a recordFailure (enabled config) on a HALF_OPEN breaker leaves
\* it OPEN with nextAttemptTime = now + timeout.
C5_Original ==
    [][\A k \in Keys :
        (Called("recordFailure", k) /\ StateOf(circuitBreakers, k) = "HALF_OPEN") =>
            /\ circuitBreakers'[k].state = "OPEN"
            /\ circuitBreakers'[k].nextAttemptTime = now + cfg.timeout]_vars

\* C6 as claimed: a breaker that has been OPEN and is CLOSED now has had a
\* success recorded since it was last OPEN.
C6_Original ==
    \A k \in Keys :
        (StateOf(circuitBreakers, k) = "CLOSED" /\ k \in hist.everOpen) => k \in hist.succSince

\* C6 amended: a breaker that has been OPEN and is CLOSED now has had, since it
\* was last OPEN, a success recorded, an admin reset/resetAll, or a removal by
\* the idle cleanup.
C6_Amended ==
    \A k \in Keys :
        (StateOf(circuitBreakers, k) = "CLOSED" /\ k \in hist.everOpen) =>
            k \in hist.succSince \cup hist.adminSince

\* C6 witness: a breaker that was OPEN is CLOSED after a reset and no success.
C6_Witness ==
    \E k \in Keys :
        /\ StateOf(circuitBreakers, k) = "CLOSED"
        /\ k \in hist.everOpen
        /\ k \in hist.adminSince \ hist.succSince
        /\ lastOp.op = "reset"


-----------------------------------------------------------------------------
(* Properties of the rate limiter *)

AllowedLog(key) == LogOf(rlHist.allowed, key)

\* C8 as claimed: with a single rule (limit L, window W), no L + 1 allowed checks
\* of a key fall in a time interval of length <= W.
C8_Original ==
    Len(rules) = 1 =>
        \A key \in DOMAIN rlHist.allowed :
            \A i \in 1..(Len(AllowedLog(key)) - rules[1].limit) :
                AllowedLog(key)[i + rules[1].limit] - AllowedLog(key)[i] > rules[1].window

\* C8 amended: with a single rule (limit L, window W), the allowed checks of a key
\* that fall in its current window [firstRequest, resetTime) are exactly the
\* window's count and at most L, and resetTime = firstRequest + W; and between
\* admin resets of the key no 2L + 1 allowed checks fall in an interval of
\* length <= W.
C8_Amended ==
    Len(rules) = 1 =>
        /\ \A key \in DOMAIN windows :
              LET w == windows[key]
                  inWin == {i \in DOMAIN AllowedLog(key) : AllowedLog(key)[i] >= w.firstRequest}
              IN /\ Cardinality(inWin) = w.count
                 /\ w.count <= rules[1].limit
                 /\ w.resetTime = w.firstRequest + rules[1].window
                 /\ \A i \in inWin : AllowedLog(key)[i] < w.resetTime
        /\ \A key \in DOMAIN rlHist.allowed :
              \A i \in 1..(Len(AllowedLog(key)) - 2 * rules[1].limit) :
                  AllowedLog(key)[i + 2 * rules[1].limit] - AllowedLog(key)[i] > rules[1].window

\* C8 witness: with a single rule, L + 1 allowed checks of a key lie within W of
\* each other, the last one opening a new window at the reset time of the old one.
C8_Witness ==
    /\ Len(rules) = 1
    /\ rlLast.op = "checkRateLimit"
    /\ \E key \in DOMAIN windows :
          /\ Len(AllowedLog(key)) = rules[1].limit + 1
          /\ AllowedLog(key)[rules[1].limit + 1] - AllowedLog(key)[1] <= rules[1].window
          /\ windows[key].count = 1
          /\ windows[key].firstRequest = now

\* The window of `key` is live at the current time
Live(key) == key \in DOMAIN windows /\ now < windows[key].resetTime

\* C9: a check of a rule (limit L, window W) against a live window (now < reset)
\* with count < L is allowed and counted; with count = L it is denied with
\* remaining 0 and retry_after = ceil((reset - now) / 1000), the window left as it
\* was; a check with no window or at time >= reset starts a window with
\* reset = now + W and is allowed.  A window's count stays within 1..L, so exactly
\* the first L checks of a window are allowed.
C9_FixedWindow ==
    /\ [][rlLast'.op = "checkRateLimit" =>
            \A j \in DOMAIN rlLast'.evals :
                LET e == rlLast'.evals[j]
                    rule == rules[e.rule]
                    d == windows[e.key].resetTime - now
                IN IF Live(e.key)
                   THEN IF windows[e.key].count < rule.limit
                        THEN /\ e.result.allowed
                             /\ e.result.totalHits = windows[e.key].count + 1
                             /\ e.result.remainingHits = rule.limit - e.result.totalHits
                             /\ windows'[e.key] =
                                    [windows[e.key] EXCEPT !.count = windows[e.key].count + 1]
                        ELSE /\ ~e.result.allowed
                             /\ e.result.remainingHits = 0
                             /\ e.result.retryAfter * 1000 >= d
                             /\ (e.result.retryAfter - 1) * 1000 < d
                             /\ windows'[e.key] = windows[e.key]
                   ELSE /\ e.result.allowed
                        /\ e.result.totalHits = 1
                        /\ e.result.resetTime = now + rule.window
                        /\ windows'[e.key] = [count |-> 1, resetTime |-> now + rule.window,
                                              firstRequest |-> now]]_vars
    /\ [](\A i \in DOMAIN rules : \A q \in Requests :
            LET key == generateKey(q, rules[i].key)
            IN key \in DOMAIN windows =>
                  /\ windows[key].count >= 1
                  /\ windows[key].count <= rules[i].limit)

\* C9 witness: a check is denied in a window that holds L = 2 checks, 1 ms after
\* the window started, with retry_after 2 for the 1999 ms left.
C9_Witness ==
    /\ rlLast.op = "checkRateLimit"
    /\ ~rlLast.result.allowed
    /\ rlLast.result.totalHits = 2
    /\ rlLast.result.retryAfter = 2
    /\ rlLast.result.resetTime - now = 1999

\* The rules of the list that the request of the last check does not skip
NonSkipped == {i \in DOMAIN rules : ~Skipped(rules[i], rlLast.request)}

Denying == {j \in DOMAIN rlLast.evals : ~rlLast.evals[j].result.allowed}

\* C10: checkRateLimit evaluates the non-skipped rules in order and returns the
\* result of the first that denies, evaluating none after it; if none denies it
\* returns allowed with remaining the minimum over all non-skipped rules; the
\* window of a skipped rule is neither created nor changed by the call.
C10_CheckRateLimit ==
    /\ [](rlLast.op = "checkRateLimit" =>
            /\ \A j \in DOMAIN rlLast.evals :
                  /\ rlLast.evals[j].rule \in NonSkipped
                  /\ rlLast.evals[j].key = generateKey(rlLast.request, rules[rlLast.evals[j].rule].key)
                  /\ Cardinality({i \in NonSkipped : i < rlLast.evals[j].rule}) = j - 1
            /\ IF Denying # {}
               THEN /\ Denying = {Len(rlLast.evals)}
                    /\ rlLast.result = rlLast.evals[Len(rlLast.evals)].result
               ELSE /\ Len(rlLast.evals) = Cardinality(NonSkipped)
                    /\ rlLast.result.allowed
                    /\ \A j \in DOMAIN rlLast.evals :
                          rlLast.result.remainingHits <= rlLast.evals[j].result.remainingHits
                    /\ \/ \E j \in DOMAIN rlLast.evals :
                              rlLast.result.remainingHits = rlLast.evals[j].result.remainingHits
                       \/ rlLast.evals = <<>> /\ rlLast.result.remainingHits = Infinity)
    /\ [][rlLast'.op = "checkRateLimit" =>
            \A i \in DOMAIN rules :
                Skipped(rules[i], rlLast'.request) =>
                    LET key == generateKey(rlLast'.request, rules[i].key)
                    IN IF key \in DOMAIN windows
                       THEN key \in DOMAIN windows' /\ windows'[key] = windows[key]
                       ELSE key \notin DOMAIN windows']_vars

\* C10 witness: a request without a user is checked against the rules global,
\* per-user and per-IP; the per-user rule is skipped, both others allow, and the
\* result carries the smaller remaining, that of the per-IP rule evaluated last.
C10_Witness ==
    /\ rlLast.op = "checkRateLimit"
    /\ Len(rules) = 3
    /\ rlLast.request.user = "none"
    /\ Len(rlLast.evals) = 2
    /\ rlLast.evals[2].rule = 3
    /\ rlLast.result.allowed
    /\ rlLast.evals[2].result.remainingHits < rlLast.evals[1].result.remainingHits
    /\ rlLast.result.remainingHits = rlLast.evals[2].result.remainingHits
    /\ generateKey(rlLast.request, rules[2].key) \notin DOMAIN windows

\* C10 second case: the first rule denies and the later rules are not evaluated.
C10_WitnessDeny ==
    /\ rlLast.op = "checkRateLimit"
    /\ Len(rules) >= 2
    /\ Len(rlLast.evals) = 1
    /\ ~rlLast.result.allowed

-----------------------------------------------------------------------------
(* Properties of the request pipeline *)

\* C7 as claimed: a request through handleRequest that is routed to a replica
\* after `threshold` retryable failures of it within monitorWindow, and before
\* `timeout` has passed since, is answered 503 with the fallback body and makes no
\* upstream call.
C7_Original ==
    (req.pc = "done" /\ req.via = "pipeline" /\ req.expectDeny) =>
        (req.status = 503 /\ req.body = "fallback" /\ req.calls = 0)

-----------------------------------------------------------------------------
(* CacheService (gateway/cache)                                              *)
(* An entry holds key, size, expiresAt and lastAccessed, and `owner`, which  *)
(* stands for its value; createdAt and accessCount are written and read by   *)
(* getStats only and are left out.  The Map is a sequence in insertion order.*)

\* config.maxSize, config.maxMemory and config.defaultTTL, scaled down
maxSize == 2
maxMemory == 3
defaultTTL == 2

MaxCacheOps == 3
MaxCacheTicks == 2

CacheKeys == {"k1", "k2", "k3"}

\* estimateSize(value) of the values stored: within maxMemory, and one beyond it
ValueSizes == {1, 2, maxMemory + 1}

\* The ttl argument of set: undefined (Null), or a number of ms
TTLs == {Null, 0, 1}

RECURSIVE SumSizes(_)
SumSizes(c) == IF c = <<>> THEN 0 ELSE Head(c).size + SumSizes(Tail(c))

getCurrentMemoryUsage(c) == SumSizes(c)

HasKey(c, key) == \E i \in DOMAIN c : c[i].key = key

EntryOf(c, key) == c[CHOOSE i \in DOMAIN c : c[i].key = key]

\* Map.delete
Without(c, key) == SelectSeq(c, LAMBDA e : e.key # key)

\* Map.set: an existing key keeps its place in the order
MapSet(c, entry) ==
    IF HasKey(c, entry.key)
    THEN [i \in DOMAIN c |-> IF c[i].key = entry.key THEN entry ELSE c[i]]
    ELSE Append(c, entry)

\* Mutant: an entry is still served at its expiry time.
IsExpired_Late(t, expiresAt) == t > expiresAt

\* Date.now() >= entry.expiresAt
IsExpired(t, expiresAt) == t >= expiresAt

\* The null that get returns
NoValue == "null"

\* get: the value returned and the map afterwards
get(c, key, t) ==
    IF ~HasKey(c, key) THEN [ret |-> NoValue, hit |-> FALSE, cache |-> c]
    ELSE IF IsExpired(t, EntryOf(c, key).expiresAt)
         THEN [ret |-> NoValue, hit |-> FALSE, cache |-> Without(c, key)]
         ELSE [ret |-> EntryOf(c, key).owner, hit |-> TRUE,
               cache |-> MapSet(c, [EntryOf(c, key) EXCEPT !.lastAccessed = t])]

\* ttl || this.config.defaultTTL
Expiration(ttl) == IF ttl = Null \/ ttl = 0 THEN defaultTTL ELSE ttl

shouldEvict(c, newEntrySize) ==
    IF Len(c) >= maxSize THEN TRUE
    ELSE getCurrentMemoryUsage(c) + newEntrySize > maxMemory

\* The entries sorted by lastAccessed, ascending; Array.prototype.sort is stable.
RECURSIVE SortByLastAccessed(_)
SortByLastAccessed(c) ==
    IF c = <<>> THEN <<>>
    ELSE LET i == CHOOSE j \in DOMAIN c :
                    \A k \in DOMAIN c :
                        \/ c[j].lastAccessed < c[k].lastAccessed
                        \/ c[j].lastAccessed = c[k].lastAccessed /\ j <= k
         IN <<c[i]>> \o SortByLastAccessed(SubSeq(c, 1, i - 1) \o SubSeq(c, i + 1, Len(c)))

\* The loop of evictEntries over the sorted entries from position i on
RECURSIVE EvictLoop(_, _, _, _, _)
EvictLoop(c, sorted, i, spaceNeeded, acc) ==
    IF i > Len(sorted) THEN [cache |-> c, evicted |-> acc.evicted]
    ELSE IF acc.spaceFreed >= spaceNeeded /\ Len(c) < maxSize
         THEN [cache |-> c, evicted |-> acc.evicted]
         ELSE EvictLoop(Without(c, sorted[i].key), sorted, i + 1, spaceNeeded,
                        [spaceFreed |-> acc.spaceFreed + sorted[i].size,
                         evicted |-> Append(acc.evicted, sorted[i].key)])

\* evictEntries: the map afterwards and the keys removed, in the order of removal
evictEntries(c, spaceNeeded) ==
    EvictLoop(c, SortByLastAccessed(c), 1, spaceNeeded, [spaceFreed |-> 0, evicted |-> <<>>])

\* set: the map afterwards and the keys evicted
set(c, key, owner, size, ttl, t) ==
    LET ev == IF shouldEvict(c, size) THEN evictEntries(c, size)
              ELSE [cache |-> c, evicted |-> <<>>]
        entry == [key |-> key, owner |-> owner, size |-> size,
                  expiresAt |-> t + Expiration(ttl), lastAccessed |-> t]
    IN [cache |-> MapSet(ev.cache, entry), evicted |-> ev.evicted]

\* has: the answer and the map afterwards
has(c, key, t) ==
    IF ~HasKey(c, key) THEN [ret |-> FALSE, cache |-> c]
    ELSE IF IsExpired(t, EntryOf(c, key).expiresAt)
         THEN [ret |-> FALSE, cache |-> Without(c, key)]
         ELSE [ret |-> TRUE, cache |-> c]

\* cleanup (the periodic sweep)
cacheCleanup(c, t) == SelectSeq(c, LAMBDA e : ~IsExpired(t, e.expiresAt))

-----------------------------------------------------------------------------
(* The calls of CacheService as actions.  chLast.calls counts them.          *)

CacheCall(name, key) == [op |-> name, key |-> key, calls |-> chLast.calls + 1]

InitCache ==
    /\ now = StartTime
    /\ ticks = 0
    /\ cfg = CHOOSE c \in Configs : TRUE
    /\ circuitBreakers = [k \in {} |-> createCircuitBreaker(k)]
    /\ lastOp = NoOp
    /\ hist = HistInit
    /\ rules = <<>>
    /\ windows = NoWindows
    /\ rlLast = NoCheck
    /\ rlHist = RLHistInit
    /\ route = NoRoute
    /\ req = NoRequest
    /\ pipeHist = PipeHistInit
    /\ cache = <<>>
    /\ cacheStats = [hits |-> 0, misses |-> 0, evictions |-> 0]
    /\ chLast = [op |-> "init", key |-> "", calls |-> 0]
    /\ LoadBalancerIdle
    /\ GatewayIdle
    /\ MonitorIdle
    /\ RegistryIdle

CacheTick ==
    /\ ticks < MaxCacheTicks
    /\ now' = now + 1
    /\ ticks' = ticks + 1
    /\ chLast' = [op |-> "tick", key |-> "", calls |-> chLast.calls]
    /\ UNCHANGED <<cbVars, rlVars, plVars, cache, cacheStats, lbVars, gwVars, hcVars, rtVars>>

CacheGet(key) ==
    LET r == get(cache, key, now)
    IN /\ chLast.calls < MaxCacheOps
       /\ cache' = r.cache
       /\ cacheStats' = IF r.hit THEN [cacheStats EXCEPT !.hits = @ + 1]
                        ELSE [cacheStats EXCEPT !.misses = @ + 1]
       /\ chLast' = [op |-> "get", key |-> key, calls |-> chLast.calls + 1,
                     ret |-> r.ret, hit |-> r.hit, found |-> HasKey(cache, key)]
       /\ UNCHANGED <<now, ticks, cbVars, rlVars, plVars, lbVars, gwVars, hcVars, rtVars>>

CacheSet(key, size, ttl) ==
    LET r == set(cache, key, key, size, ttl, now)
    IN /\ chLast.calls < MaxCacheOps
       /\ cache' = r.cache
       /\ cacheStats' = [cacheStats EXCEPT !.evictions = @ + Len(r.evicted)]
       /\ chLast' = [op |-> "set", key |-> key, calls |-> chLast.calls + 1,
                     size |-> size, ttl |-> ttl, evicted |-> r.evicted]
       /\ UNCHANGED <<now, ticks, cbVars, rlVars, plVars, lbVars, gwVars, hcVars, rtVars>>

CacheDelete(key) ==
    /\ chLast.calls < MaxCacheOps
    /\ cache' = Without(cache, key)
    /\ chLast' = CacheCall("delete", key)
    /\ UNCHANGED <<now, ticks, cbVars, rlVars, plVars, cacheStats, lbVars, gwVars, hcVars, rtVars>>

CacheHas(key) ==
    LET r == has(cache, key, now)
    IN /\ chLast.calls < MaxCacheOps
       /\ cache' = r.cache
       /\ chLast' = CacheCall("has", key)
       /\ UNCHANGED <<now, ticks, cbVars, rlVars, plVars, cacheStats, lbVars, gwVars, hcVars, rtVars>>

CacheClear ==
    /\ chLast.calls < MaxCacheOps
    /\ cache' = <<>>
    /\ chLast' = CacheCall("clear", "")
    /\ UNCHANGED <<now, ticks, cbVars, rlVars, plVars, cacheStats, lbVars, gwVars, hcVars, rtVars>>

CacheCleanup ==
    /\ chLast.calls < MaxCacheOps
    /\ cache' = cacheCleanup(cache, now)
    /\ chLast' = CacheCall("cleanup", "")
    /\ UNCHANGED <<now, ticks, cbVars, rlVars, plVars, cacheStats, lbVars, gwVars, hcVars, rtVars>>

NextCache ==
    \/ CacheTick
    \/ \E key \in CacheKeys : CacheGet(key)
    \/ \E key \in CacheKeys, size \in ValueSizes, ttl \in TTLs : CacheSet(key, size, ttl)
    \/ \E key \in CacheKeys : CacheDelete(key)
    \/ \E key \in CacheKeys : CacheHas(key)
    \/ CacheClear
    \/ CacheCleanup

SpecCache == InitCache /\ [][NextCache]_vars

-----------------------------------------------------------------------------
(* Properties of the cache *)

\* C12: a get(key) made at time now on a store that holds an entry of key with
\* expires_at <= now returns null and removes the entry; a get returns a value
\* only of an entry with expires_at > now (none if the key is absent).
C12_GetNeverExpired ==
    [][chLast'.op = "get" =>
          IF HasKey(cache, chLast'.key)
          THEN IF EntryOf(cache, chLast'.key).expiresAt <= now
               THEN chLast'.ret = NoValue /\ ~HasKey(cache', chLast'.key)
               ELSE chLast'.ret = EntryOf(cache, chLast'.key).owner
          ELSE chLast'.ret = NoValue]_vars

\* C12 witness: a get found an entry of its key, returned null and removed it.
C12_Witness ==
    /\ chLast.op = "get"
    /\ chLast.found
    /\ chLast.ret = NoValue
    /\ ~HasKey(cache, chLast.key)

\* C13 as claimed: the store never holds more than maxSize entries nor more than
\* maxMemory bytes.
C13_Original ==
    /\ Len(cache) <= maxSize
    /\ getCurrentMemoryUsage(cache) <= maxMemory

\* The store c without the first n entries of its least-recently-used order
RECURSIVE WithoutLRU(_, _)
WithoutLRU(c, n) ==
    IF n = 0 \/ c = <<>> THEN c
    ELSE WithoutLRU(Without(c, SortByLastAccessed(c)[1].key), n - 1)

\* The least number of least-recently-used entries whose removal lets an insert
\* of `size` bytes fit both limits (all entries if nothing less does)
NeededEvictions(c, size) ==
    CHOOSE n \in 0..Len(c) :
        /\ n = Len(c) \/ ~shouldEvict(WithoutLRU(c, n), size)
        /\ \A m \in 0..(n - 1) : shouldEvict(WithoutLRU(c, m), size)

\* C14 as claimed: a set removes the entries in ascending last-access order and
\* only as many as it takes for the insert to fit both limits (none if it fits),
\* and the evictions statistic grows by the number removed.
C14_Original ==
    [][chLast'.op = "set" =>
          LET n == NeededEvictions(cache, chLast'.size)
          IN /\ chLast'.evicted = [i \in 1..n |-> SortByLastAccessed(cache)[i].key]
             /\ cacheStats'.evictions = cacheStats.evictions + n]_vars

\* C17 as claimed: the entry a set stores expires at store time + ttl for every
\* ttl passed (0 included), and at store time + defaultTTL only when ttl is
\* undefined.
C17_Original ==
    [][chLast'.op = "set" =>
          EntryOf(cache', chLast'.key).expiresAt =
              now + (IF chLast'.ttl = Null THEN defaultTTL ELSE chLast'.ttl)]_vars

-----------------------------------------------------------------------------
(* CacheService.generateHttpCacheKey and hashString.  A string is the        *)
(* sequence of its UTF-16 code units.                                        *)

\* A 32-bit integer is held as its two 16-bit halves (of its two's complement).
\* ((hash << 5) - hash) + char followed by `hash & hash` is 31 * hash + char
\* modulo 2^32.
Int32Step(hash, char) ==
    LET lo == 31 * hash.lo + char
        hi == 31 * hash.hi + (lo \div 65536)
    IN [hi |-> hi % 65536, lo |-> lo % 65536]

RECURSIVE HashLoop(_, _)
HashLoop(str, hash) ==
    IF str = <<>> THEN hash ELSE HashLoop(Tail(str), Int32Step(hash, Head(str)))

\* Math.abs of the 32-bit integer: a negative one (top bit set) is negated
Abs32(hash) ==
    IF hash.hi < 32768 THEN hash
    ELSE IF hash.lo = 0 THEN [hi |-> (65536 - hash.hi) % 65536, lo |-> 0]
    ELSE [hi |-> 65535 - hash.hi, lo |-> 65536 - hash.lo]

\* Number.prototype.toString(16) of n >= 0, as its hexadecimal digits
RECURSIVE ToHex(_)
ToHex(n) == IF n < 16 THEN <<n>> ELSE Append(ToHex(n \div 16), n % 16)

\* The four hexadecimal digits of a 16-bit half
Hex4(n) == <<n \div 4096, (n \div 256) % 16, (n \div 16) % 16, n % 16>>

\* hashString: Math.abs(hash).toString(16)
hashString(str) ==
    LET h == Abs32(HashLoop(str, [hi |-> 0, lo |-> 0]))
    IN IF h.hi = 0 THEN ToHex(h.lo) ELSE ToHex(h.hi) \o Hex4(h.lo)

\* generateHttpCacheKey.  headers holds authorization and x-user-id; the empty
\* string stands for an absent header too (both are falsy).
generateHttpCacheKey(method, url, headers) ==
    IF headers.authorization # <<>> \/ headers.xUserId # <<>>
    THEN <<"http", method, url, "user",
           hashString(IF headers.authorization # <<>> THEN headers.authorization
                      ELSE headers.xUserId)>>
    ELSE <<"http", method, url>>

\* The code units of the header values tried: 'A', 'B', 'a'
HeaderChars == {65, 66, 97}

\* The authorization header values: the strings of one or two of these characters
AuthValues == {<<a>> : a \in HeaderChars} \cup {<<a, b>> : a, b \in HeaderChars}

HeadersOf(auth) == [authorization |-> auth, xUserId |-> <<>>]

InitKey ==
    /\ now = StartTime
    /\ ticks = 0
    /\ cfg = CHOOSE c \in Configs : TRUE
    /\ circuitBreakers = [k \in {} |-> createCircuitBreaker(k)]
    /\ lastOp = NoOp
    /\ hist = HistInit
    /\ rules = <<>>
    /\ windows = NoWindows
    /\ rlLast = NoCheck
    /\ rlHist = RLHistInit
    /\ route = NoRoute
    /\ req = NoRequest
    /\ pipeHist = PipeHistInit
    /\ CacheIdle
    /\ LoadBalancerIdle
    /\ GatewayIdle
    /\ MonitorIdle
    /\ RegistryIdle

\* A response to GET /api/users made with the authorization value is stored
\* under its key; the value stored stands for the response made for `auth`.
\* (Stores are made while the store has room, so that none evicts.)
StoreResponse(auth) ==
    LET key == generateHttpCacheKey("GET", "/api/users", HeadersOf(auth))
        r == set(cache, key, auth, 1, Null, now)
    IN /\ ~shouldEvict(cache, 1)
       /\ cache' = r.cache
       /\ cacheStats' = [cacheStats EXCEPT !.evictions = @ + Len(r.evicted)]
       /\ chLast' = [op |-> "store", auth |-> auth, key |-> key]
       /\ UNCHANGED <<now, ticks, cbVars, rlVars, plVars, lbVars, gwVars, hcVars, rtVars>>

\* A GET /api/users with the authorization value looks its key up.
LookupResponse(auth) ==
    LET key == generateHttpCacheKey("GET", "/api/users", HeadersOf(auth))
        r == get(cache, key, now)
    IN /\ cache' = r.cache
       /\ UNCHANGED cacheStats
       /\ chLast' = [op |-> "lookup", auth |-> auth, key |-> key, hit |-> r.hit, ret |-> r.ret]
       /\ UNCHANGED <<now, ticks, cbVars, rlVars, plVars, lbVars, gwVars, hcVars, rtVars>>

NextKey ==
    \/ \E auth \in AuthValues : StoreResponse(auth)
    \/ \E auth \in AuthValues : LookupResponse(auth)

SpecKey == InitKey /\ [][NextKey]_vars

\* C15 as claimed: a lookup made with one authorization value is never answered
\* with an entry stored for a different authorization value.
C15_Original ==
    (chLast.op = "lookup" /\ chLast.hit) => chLast.ret = chLast.auth

-----------------------------------------------------------------------------
(* CacheService.shouldCacheResponse and extractTTLFromHeaders.  A            *)
(* Cache-Control value is the sequence of its directives, each a name with a *)
(* number (Null where the directive has none).                               *)

Directive(name, value) == [name |-> name, value |-> value]

CacheControls ==
    {<<>>,
     <<Directive("public", Null)>>,
     <<Directive("no-cache", Null)>>,
     <<Directive("no-store", Null)>>,
     <<Directive("max-age", 0)>>,
     <<Directive("max-age", 60)>>,
     <<Directive("public", Null), Directive("max-age", 60)>>,
     <<Directive("no-cache", Null), Directive("max-age", 60)>>}

StatusCodes == {100, 199, 200, 204, 299, 300, 301, 304, 399, 400, 404, 500}

\* The Expires header: absent (Null) or a time, before, at or after the start time
ExpiresValues == {Null, StartTime - 1, StartTime, StartTime + 5}

ResponseHeaders ==
    [cacheControl : CacheControls, setCookie : BOOLEAN, expires : ExpiresValues]

\* cacheControl.includes(name)
Includes(cacheControl, name) == \E i \in DOMAIN cacheControl : cacheControl[i].name = name

shouldCacheResponse(statusCode, headers) ==
    IF statusCode >= 400 THEN FALSE
    ELSE IF Includes(headers.cacheControl, "no-cache") \/ Includes(headers.cacheControl, "no-store")
         THEN FALSE
         ELSE IF headers.setCookie THEN FALSE
              ELSE TRUE

\* extractTTLFromHeaders: the first max-age in ms; else Expires minus now if that
\* is positive; else undefined (Null)
extractTTLFromHeaders(headers, t) ==
    IF Includes(headers.cacheControl, "max-age")
    THEN headers.cacheControl[CHOOSE i \in DOMAIN headers.cacheControl :
                /\ headers.cacheControl[i].name = "max-age"
                /\ \A j \in 1..(i - 1) : headers.cacheControl[j].name # "max-age"].value * 1000
    ELSE IF headers.expires # Null /\ headers.expires > t
         THEN headers.expires - t
         ELSE Null

InitHeaders ==
    /\ now = StartTime
    /\ ticks = 0
    /\ cfg = CHOOSE c \in Configs : TRUE
    /\ circuitBreakers = [k \in {} |-> createCircuitBreaker(k)]
    /\ lastOp = NoOp
    /\ hist = HistInit
    /\ rules = <<>>
    /\ windows = NoWindows
    /\ rlLast = NoCheck
    /\ rlHist = RLHistInit
    /\ route = NoRoute
    /\ req = NoRequest
    /\ pipeHist = PipeHistInit
    /\ cache = <<>>
    /\ cacheStats = [hits |-> 0, misses |-> 0, evictions |-> 0]
    /\ chLast \in [op : {"response"}, statusCode : StatusCodes, headers : ResponseHeaders,
                   ret : {Null}]
    /\ LoadBalancerIdle
    /\ GatewayIdle
    /\ MonitorIdle
    /\ RegistryIdle

ShouldCacheResponse ==
    /\ chLast.op = "response"
    /\ chLast' = [chLast EXCEPT !.op = "shouldCacheResponse",
                                !.ret = shouldCacheResponse(chLast.statusCode, chLast.headers)]
    /\ UNCHANGED <<now, ticks, cbVars, rlVars, plVars, cache, cacheStats, lbVars, gwVars, hcVars, rtVars>>

ExtractTTLFromHeaders ==
    /\ chLast.op = "response"
    /\ chLast' = [chLast EXCEPT !.op = "extractTTLFromHeaders",
                                !.ret = extractTTLFromHeaders(chLast.headers, now)]
    /\ UNCHANGED <<now, ticks, cbVars, rlVars, plVars, cache, cacheStats, lbVars, gwVars, hcVars, rtVars>>

NextHeaders ==
    \/ ShouldCacheResponse
    \/ ExtractTTLFromHeaders

SpecHeaders == InitHeaders /\ [][NextHeaders]_vars

\* C16 as claimed: should_cache_response is true exactly when the status is in
\* 200..299, Cache-Control holds neither no-cache nor no-store and there is no
\* Set-Cookie header.
C16_Original ==
    chLast.op = "shouldCacheResponse" =>
        (chLast.ret <=>
            /\ chLast.statusCode \in 200..299
            /\ ~Includes(chLast.headers.cacheControl, "no-cache")
            /\ ~Includes(chLast.headers.cacheControl, "no-store")
            /\ ~chLast.headers.setCookie)

-----------------------------------------------------------------------------
(* The global interceptors of GatewayModule in front of the handler.  A url  *)
(* is the sequence of its path segments.                                     *)

MaxGateRequests == 3
MaxGateTicks == 2

\* The APP_INTERCEPTOR providers, in the order GatewayModule lists them; Nest
\* runs the global interceptors in that order.
APP_INTERCEPTORS == <<"CacheInterceptor", "RateLimitInterceptor">>

IsPrefix(p, u) == Len(p) <= Len(u) /\ SubSeq(u, 1, Len(p)) = p

\* CacheInterceptor.shouldSkipCache
shouldSkipCache(url) ==
    \E p \in {<<"health">>, <<"metrics">>, <<"admin">>, <<"api", "v1", "auth">>} : IsPrefix(p, url)

\* RateLimitInterceptor.shouldSkipRateLimit
shouldSkipRateLimit(url) ==
    \E p \in {<<"health">>, <<"metrics">>, <<"favicon.ico">>} : IsPrefix(p, url)

GateMethods == {"GET", "POST"}
GateUrls == {<<"api", "users">>, <<"admin", "routes">>}

\* The rules of getRateLimitRules, scaled down to a per-IP rule
GateRuleLists == {createRules(0, 0, i, 1000) : i \in 1..MaxLimit}

\* What the handler answers: a status, with or without Cache-Control: no-store
GateResponses ==
    [statusCode : {200, 500},
     headers : [cacheControl : {<<>>, <<Directive("no-store", Null)>>},
                setCookie : {FALSE}, expires : {Null}]]

\* The interceptors from position i on, up to the call of the handler.  st holds
\* the cache, its stats, the limiter's windows and the request's progress.
RECURSIVE RunInterceptors(_, _, _, _, _)
RunInterceptors(i, st, method, url, request) ==
    IF i > Len(APP_INTERCEPTORS) THEN [st EXCEPT !.gw.pc = "handling"]
    ELSE IF APP_INTERCEPTORS[i] = "CacheInterceptor"
    THEN IF method # "GET" \/ shouldSkipCache(url)
         THEN RunInterceptors(i + 1, st, method, url, request)
         ELSE LET key == generateHttpCacheKey(method, url, HeadersOf(<<>>))
                  r == get(st.cache, key, now)
              IN IF r.hit
                 THEN [st EXCEPT !.cache = r.cache, !.stats.hits = @ + 1,
                                 !.gw.pc = "done", !.gw.xcache = "HIT",
                                 !.gw.status = r.ret.statusCode]
                 ELSE RunInterceptors(i + 1,
                          [st EXCEPT !.cache = r.cache, !.stats.misses = @ + 1,
                                     !.gw.xcache = "MISS", !.gw.key = key],
                          method, url, request)
    ELSE IF shouldSkipRateLimit(url)
         THEN RunInterceptors(i + 1, st, method, url, request)
         ELSE LET c == checkRateLimit(st.windows, request, rules, now)
              IN IF ~c.result.allowed
                 THEN [st EXCEPT !.windows = c.windows, !.gw.pc = "done", !.gw.checked = TRUE,
                                 !.gw.status = 429]
                 ELSE RunInterceptors(i + 1,
                          [st EXCEPT !.windows = c.windows, !.gw.checked = TRUE],
                          method, url, request)

InitGate ==
    /\ now = StartTime
    /\ ticks = 0
    /\ cfg = CHOOSE c \in Configs : TRUE
    /\ circuitBreakers = [k \in {} |-> createCircuitBreaker(k)]
    /\ lastOp = NoOp
    /\ hist = HistInit
    /\ rules \in GateRuleLists
    /\ windows = NoWindows
    /\ rlLast = NoCheck
    /\ rlHist = RLHistInit
    /\ route = NoRoute
    /\ req = NoRequest
    /\ pipeHist = PipeHistInit
    /\ CacheIdle
    /\ LoadBalancerIdle
    /\ GatewayIdle
    /\ MonitorIdle
    /\ RegistryIdle

GateTick ==
    /\ ticks < MaxGateTicks
    /\ now' = now + 1000
    /\ ticks' = ticks + 1
    /\ UNCHANGED <<cbVars, rlVars, plVars, chVars, lbVars, gwVars, hcVars, rtVars>>

\* A request arrives and passes the interceptors.  wouldDeny: the limiter, asked
\* at this moment, denies the request.
GateRequest(method, url, request) ==
    LET st == RunInterceptors(1,
                  [cache |-> cache, stats |-> cacheStats, windows |-> windows,
                   gw |-> [pc |-> "intercept", requests |-> gw.requests + 1,
                           method |-> method, url |-> url, key |-> <<>>,
                           xcache |-> "none", checked |-> FALSE, status |-> 0,
                           wouldDeny |-> /\ ~shouldSkipRateLimit(url)
                                         /\ ~checkRateLimit(windows, request, rules,
                                                            now).result.allowed]],
                  method, url, request)
    IN /\ gw.pc \in {"idle", "done"}
       /\ gw.requests < MaxGateRequests
       /\ cache' = st.cache
       /\ cacheStats' = st.stats
       /\ windows' = st.windows
       /\ gw' = st.gw
       /\ UNCHANGED <<now, ticks, cbVars, rules, rlLast, rlHist, plVars, chLast, lbVars, hcVars, rtVars>>

\* The handler answers; the tap of CacheInterceptor stores the response when
\* the request went through its lookup (cacheResponse).
GateRespond(response) ==
    LET store == /\ gw.xcache = "MISS"
                 /\ shouldCacheResponse(response.statusCode, response.headers)
        r == set(cache, gw.key, [statusCode |-> response.statusCode], 1,
                 extractTTLFromHeaders(response.headers, now), now)
    IN /\ gw.pc = "handling"
       /\ cache' = IF store THEN r.cache ELSE cache
       /\ cacheStats' = IF store THEN [cacheStats EXCEPT !.evictions = @ + Len(r.evicted)]
                        ELSE cacheStats
       /\ gw' = [gw EXCEPT !.pc = "done", !.status = response.statusCode]
       /\ UNCHANGED <<now, ticks, cbVars, rlVars, plVars, chLast, lbVars, hcVars, rtVars>>

NextGate ==
    \/ GateTick
    \/ \E method \in GateMethods, url \in GateUrls, request \in Requests :
           GateRequest(method, url, request)
    \/ \E response \in GateResponses : GateRespond(response)

SpecGate == InitGate /\ [][NextGate]_vars

\* C11 as claimed: a request answered from the cache has been counted by the
\* rate limiter, and a request the limiter denies is answered 429, whether or not
\* the cache holds a fresh entry for it.
C11_Original ==
    gw.pc = "done" =>
        /\ gw.xcache = "HIT" => gw.checked
        /\ gw.wouldDeny => gw.status = 429

-----------------------------------------------------------------------------
(* RouteConfigService, LoadBalancerService, the health probes of             *)
(* HealthCheckService and the dispatch in GatewayController.handleRequest.   *)
(* A target is url, weight, isHealthy, responseTime, errorCount              *)
(* (lastHealthCheck is read by nothing that is modelled).                    *)

MaxSelections == 4
MaxDispatches == 2
MaxProbes == 1
MaxResets == 1

\* Math.random() is random / RandomDenominator, random \in 0..RandomDenominator-1
RandomDenominator == 6

Algorithms ==
    {"round-robin", "weighted-round-robin", "least-connections",
     "least-response-time", "health-based", "random"}

\* generateRouteKey, and routeKey in handleRequest: `${method}:${path}`
RouteKeys == {"GET:/api/users", "GET:/api/orders"}

createTarget(url, weight) ==
    [url |-> url, weight |-> weight, isHealthy |-> TRUE, responseTime |-> 0, errorCount |-> 0]

\* initializeDefaultRoutes, the algorithm of /api/users left open
DefaultRoutes(algorithm) ==
    [k \in RouteKeys |->
        IF k = "GET:/api/users"
        THEN [algorithm |-> algorithm,
              targets |-> <<createTarget("user-service", 1), createTarget("user-service-backup", 1)>>]
        ELSE [algorithm |-> "weighted-round-robin",
              targets |-> <<createTarget("order-service", 2), createTarget("order-service-v2", 1)>>]]

\* A route as setRoute stores it for the admin controller: any algorithm, and
\* targets that are configured healthy or not
AdminRoutes ==
    {[k \in {"GET:/api/orders"} |->
         [algorithm |-> a,
          targets |-> <<[createTarget("order-service", 2) EXCEPT !.isHealthy = h[1]],
                        [createTarget("order-service-v2", 1) EXCEPT !.isHealthy = h[2]]>>]] :
     a \in Algorithms, h \in [1..2 -> BOOLEAN]}

TargetUrls == {"user-service", "user-service-backup", "order-service", "order-service-v2"}

\* What a probe or a forwarded request measures
ResponseTimes == {1}

\* selectTarget's null
NoTarget == [url |-> "null"]

\* map.set(k, v) and map.get(k) || 0
Put(m, k, v) == [x \in DOMAIN m \cup {k} |-> IF x = k THEN v ELSE m[x]]
Lookup(m, k) == IF k \in DOMAIN m THEN m[k] ELSE 0

\* targets.filter(target => target.isHealthy)
HealthyOf(ts) == LET isHealthy(t) == t.isHealthy IN SelectSeq(ts, isHealthy)

getHealthyTargets_Unfiltered(rs, key) == rs[key].targets

getHealthyTargets(rs, key) == HealthyOf(rs[key].targets)

roundRobinSelection_Skip(ts, routeKey, counters) ==
    LET counter == Lookup(counters, routeKey)
        selectedIndex == (counter + 1) % Len(ts)
    IN [target |-> ts[selectedIndex + 1], counters |-> Put(counters, routeKey, counter + 1)]

roundRobinSelection(ts, routeKey, counters) ==
    LET counter == Lookup(counters, routeKey)
        selectedIndex == counter % Len(ts)
    IN [target |-> ts[selectedIndex + 1], counters |-> Put(counters, routeKey, counter + 1)]

RECURSIVE SumWeights(_)
SumWeights(ts) == IF ts = <<>> THEN 0 ELSE Head(ts).weight + SumWeights(Tail(ts))

\* the loop of weightedRoundRobinSelection from targets[i] on
RECURSIVE WeightedWalk(_, _, _)
WeightedWalk(ts, i, weightedIndex) ==
    IF i > Len(ts) THEN ts[1]
    ELSE IF weightedIndex - ts[i].weight <= 0 THEN ts[i]
    ELSE WeightedWalk(ts, i + 1, weightedIndex - ts[i].weight)

weightedRoundRobinSelection_FromZero(ts, routeKey, counters) ==
    LET totalWeight == SumWeights(ts)
        counter == Lookup(counters, routeKey)
    IN [target |-> WeightedWalk(ts, 1, counter % totalWeight),
        counters |-> Put(counters, routeKey, counter + 1)]

weightedRoundRobinSelection(ts, routeKey, counters) ==
    LET totalWeight == SumWeights(ts)
        counter == Lookup(counters, routeKey)
    IN [target |-> WeightedWalk(ts, 1, (counter % totalWeight) + 1),
        counters |-> Put(counters, routeKey, counter + 1)]

\* the loop of leastConnectionsSelection from targets[i] on
RECURSIVE LeastConnectionsLoop(_, _, _, _)
LeastConnectionsLoop(ts, i, selectedTarget, counts) ==
    IF i > Len(ts) THEN selectedTarget
    ELSE LeastConnectionsLoop(ts, i + 1,
             IF Lookup(counts, ts[i].url) < Lookup(counts, selectedTarget.url)
             THEN ts[i] ELSE selectedTarget,
             counts)

leastConnectionsSelection(ts, counts) == LeastConnectionsLoop(ts, 2, ts[1], counts)

\* targets.reduce((best, current) => current.responseTime < best.responseTime ? current : best)
RECURSIVE LeastResponseTimeLoop(_, _, _)
LeastResponseTimeLoop(ts, i, best) ==
    IF i > Len(ts) THEN best
    ELSE LeastResponseTimeLoop(ts, i + 1,
             IF ts[i].responseTime < best.responseTime THEN ts[i] ELSE best)

\* Mutant: the reduce keeps the slower of the two targets.
leastResponseTimeSelection_Slowest(ts) ==
    LET slower(i) == \A j \in DOMAIN ts : ts[j].responseTime <= ts[i].responseTime
    IN ts[CHOOSE i \in DOMAIN ts : slower(i)]

leastResponseTimeSelection(ts) == LeastResponseTimeLoop(ts, 2, ts[1])

\* The head of the (stable) sort by errorCount: the first target whose
\* errorCount is minimal.
healthBasedSelection(ts) ==
    LET least == CHOOSE i \in 1..Len(ts) :
                     /\ \A j \in 1..Len(ts) : ts[i].errorCount <= ts[j].errorCount
                     /\ \A j \in 1..(i - 1) : ts[j].errorCount > ts[i].errorCount
    IN ts[least]

\* Math.floor(Math.random() * targets.length)
randomSelection(ts, random) == ts[((random * Len(ts)) \div RandomDenominator) + 1]

\* selectTarget: the target (or null), the list it was selected from and the
\* round-robin counters afterwards
selectTarget(ts, algorithm, routeKey, counters, counts, random) ==
    LET healthyTargets == HealthyOf(ts)
        same(t) == [target |-> t, counters |-> counters]
        r == IF Len(healthyTargets) = 0 THEN same(NoTarget)
             ELSE CASE algorithm = "round-robin" ->
                           roundRobinSelection(healthyTargets, routeKey, counters)
                    [] algorithm = "weighted-round-robin" ->
                           weightedRoundRobinSelection(healthyTargets, routeKey, counters)
                    [] algorithm = "least-connections" ->
                           same(leastConnectionsSelection(healthyTargets, counts))
                    [] algorithm = "least-response-time" ->
                           same(leastResponseTimeSelection(healthyTargets))
                    [] algorithm = "health-based" ->
                           same(healthBasedSelection(healthyTargets))
                    [] algorithm = "random" ->
                           same(randomSelection(healthyTargets, random))
                    [] OTHER -> roundRobinSelection(healthyTargets, routeKey, counters)
    IN [target |-> r.target, counters |-> r.counters, healthyTargets |-> healthyTargets]

incrementConnectionCount(counts, targetUrl) ==
    Put(counts, targetUrl, Lookup(counts, targetUrl) + 1)

decrementConnectionCount_NoFloor(counts, targetUrl) ==
    Put(counts, targetUrl, Lookup(counts, targetUrl) - 1)

\* Math.max(0, current - 1)
decrementConnectionCount(counts, targetUrl) ==
    Put(counts, targetUrl,
        IF Lookup(counts, targetUrl) - 1 > 0 THEN Lookup(counts, targetUrl) - 1 ELSE 0)

\* updateTargetHealthStatus with a plain decrement of errorCount
updateTargetHealthStatus_NoFloor(target, isCurrentlyHealthy, responseTime) ==
    IF isCurrentlyHealthy
    THEN [target EXCEPT !.responseTime = responseTime,
                        !.errorCount = @ - 1,
                        !.isHealthy = TRUE]
    ELSE [target EXCEPT !.responseTime = responseTime,
                        !.errorCount = @ + 1,
                        !.isHealthy = FALSE]

\* HealthCheckService.updateTargetHealthStatus on one target
updateTargetHealthStatus(target, isCurrentlyHealthy, responseTime) ==
    IF isCurrentlyHealthy
    THEN [target EXCEPT !.responseTime = responseTime,
                        !.errorCount = IF @ - 1 > 0 THEN @ - 1 ELSE 0,
                        !.isHealthy = TRUE]
    ELSE [target EXCEPT !.responseTime = responseTime,
                        !.errorCount = @ + 1,
                        !.isHealthy = FALSE]

\* RouteConfigService.updateTargetResponseTime
updateTargetResponseTime(rs, targetUrl, responseTime) ==
    [k \in DOMAIN rs |->
        [rs[k] EXCEPT !.targets =
            [i \in DOMAIN rs[k].targets |->
                IF rs[k].targets[i].url = targetUrl
                THEN [rs[k].targets[i] EXCEPT !.responseTime = responseTime]
                ELSE rs[k].targets[i]]]]

\* The values Math.random() takes for the algorithm (read by randomSelection only)
Randoms(algorithm) == IF algorithm = "random" THEN 0..(RandomDenominator - 1) ELSE {0}

\* The longest cycle of a route: the total weight of its targets
RECURSIVE MaxOf(_)
MaxOf(S) == IF S = {} THEN 0
            ELSE LET x == CHOOSE y \in S : TRUE
                     m == MaxOf(S \ {x})
                 IN IF x > m THEN x ELSE m

CycleLength == MaxOf({SumWeights(DefaultRoutes("round-robin")[k].targets) : k \in RouteKeys})

LastOf(h, n) == IF Len(h) <= n THEN h ELSE SubSeq(h, Len(h) - n + 1, Len(h))

\* One more selection in the history of a route key.  The history keeps, per
\* key, the number of selections made since the counters were last cleared and
\* the last CycleLength selections: the healthy list the target was selected
\* from, the target, and the position k of the selection since the counters
\* were cleared.
Selected(h, routeKey, healthyTargets, target) ==
    [h EXCEPT ![routeKey] =
        [since |-> @.since + 1,
         recent |-> LastOf(Append(@.recent,
                               [input |-> [i \in DOMAIN healthyTargets |->
                                              [url |-> healthyTargets[i].url,
                                               weight |-> healthyTargets[i].weight]],
                                selected |-> target.url,
                                k |-> @.since]),
                           CycleLength)]]

\* The last call, and how many calls of each kind the run may still make
LBCall(name, routeKey, input, called, ret) ==
    [op |-> name, key |-> routeKey, input |-> input, called |-> called, ret |-> ret,
     left |-> [selections |-> lbLast.left.selections
                                  - (IF name \in {"dispatch", "select"} THEN 1 ELSE 0),
               probes |-> lbLast.left.probes - (IF name = "probe" THEN 1 ELSE 0),
               resets |-> lbLast.left.resets - (IF name = "reset" THEN 1 ELSE 0)]]

\* The services after construction, with the given routes
LoadBalancerInit(rs, selections, probes, resets) ==
    /\ now = StartTime
    /\ ticks = 0
    /\ cfg = CHOOSE c \in Configs : TRUE
    /\ circuitBreakers = [k \in {} |-> createCircuitBreaker(k)]
    /\ lastOp = NoOp
    /\ hist = HistInit
    /\ rules = <<>>
    /\ windows = NoWindows
    /\ rlLast = NoCheck
    /\ rlHist = RLHistInit
    /\ route = NoRoute
    /\ req = NoRequest
    /\ pipeHist = PipeHistInit
    /\ CacheIdle
    /\ routes \in rs
    /\ roundRobinCounters = <<>>
    /\ connectionCounts = <<>>
    /\ lbLast = [op |-> "init", key |-> "", input |-> <<>>, called |-> FALSE, ret |-> NoTarget,
                 left |-> [selections |-> selections, probes |-> probes, resets |-> resets]]
    /\ lbHist = [k \in DOMAIN routes |-> [since |-> 0, recent |-> <<>>]]
    /\ gw = [pc |-> "idle", requests |-> 0, forwarding |-> [u \in TargetUrls |-> 0]]
    /\ MonitorIdle
    /\ RegistryIdle

InitLB == LoadBalancerInit(AdminRoutes, MaxDispatches, MaxProbes, 0)

\* A health probe of one target of a route comes back
HealthProbe(routeKey, i, isCurrentlyHealthy, responseTime) ==
    /\ lbLast.left.probes > 0
    /\ routeKey \in DOMAIN routes
    /\ i \in DOMAIN routes[routeKey].targets
    /\ routes' = [routes EXCEPT ![routeKey].targets[i] =
                      updateTargetHealthStatus(@, isCurrentlyHealthy, responseTime)]
    /\ lbLast' = LBCall("probe", routeKey, <<>>, FALSE, NoTarget)
    /\ UNCHANGED <<now, ticks, cbVars, rlVars, plVars, chVars,
                   roundRobinCounters, connectionCounts, lbHist, gwVars, hcVars, rtVars>>

\* handleRequest from getHealthyTargets to incrementConnectionCount: no await
\* lies between them
Dispatch(routeKey, random) ==
    LET healthyTargets == getHealthyTargets(routes, routeKey)
        r == selectTarget(healthyTargets, routes[routeKey].algorithm, routeKey,
                          roundRobinCounters, connectionCounts, random)
    IN /\ lbLast.left.selections > 0
       /\ routeKey \in DOMAIN routes
       /\ random \in Randoms(routes[routeKey].algorithm)
       /\ IF Len(healthyTargets) = 0
          THEN /\ lbLast' = LBCall("dispatch", routeKey, healthyTargets, FALSE, NoTarget)
               /\ UNCHANGED <<roundRobinCounters, connectionCounts, lbHist, gw>>
          ELSE /\ lbLast' = LBCall("dispatch", routeKey, healthyTargets, TRUE, r.target)
               /\ roundRobinCounters' = r.counters
               /\ IF r.target = NoTarget
                  THEN UNCHANGED <<connectionCounts, lbHist, gw>>
                  ELSE /\ connectionCounts' =
                              incrementConnectionCount(connectionCounts, r.target.url)
                       /\ lbHist' = Selected(lbHist, routeKey, r.healthyTargets, r.target)
                       /\ gw' = [gw EXCEPT !.requests = @ + 1,
                                           !.forwarding[r.target.url] = @ + 1]
       /\ UNCHANGED <<now, ticks, cbVars, rlVars, plVars, chVars, routes, hcVars, rtVars>>

\* selectTarget called with all the targets of a route, healthy or not
SelectTarget(routeKey, random) ==
    LET r == selectTarget(routes[routeKey].targets, routes[routeKey].algorithm, routeKey,
                          roundRobinCounters, connectionCounts, random)
    IN /\ lbLast.left.selections > 0
       /\ routeKey \in DOMAIN routes
       /\ random \in Randoms(routes[routeKey].algorithm)
       /\ lbLast' = LBCall("select", routeKey, routes[routeKey].targets, TRUE, r.target)
       /\ roundRobinCounters' = r.counters
       /\ lbHist' = IF r.target = NoTarget THEN lbHist
                    ELSE Selected(lbHist, routeKey, r.healthyTargets, r.target)
       /\ UNCHANGED <<now, ticks, cbVars, rlVars, plVars, chVars, routes, connectionCounts,
                      gwVars, hcVars, rtVars>>

\* A forwarded request ends: with a response (updateTargetResponseTime) or
\* with an error; the finally block decrements the connection count.
RequestEnds(targetUrl, responseTime) ==
    /\ gw.forwarding[targetUrl] > 0
    /\ routes' = IF responseTime = Null THEN routes
                 ELSE updateTargetResponseTime(routes, targetUrl, responseTime)
    /\ connectionCounts' = decrementConnectionCount(connectionCounts, targetUrl)
    /\ gw' = [gw EXCEPT !.forwarding[targetUrl] = @ - 1]
    /\ UNCHANGED <<now, ticks, cbVars, rlVars, plVars, chVars, roundRobinCounters, lbLast,
                   lbHist, hcVars, rtVars>>

\* resetLoadBalancerStats of the admin controller
ResetStats ==
    /\ lbLast.left.resets > 0
    /\ roundRobinCounters' = <<>>
    /\ connectionCounts' = <<>>
    /\ lbLast' = LBCall("reset", "", <<>>, FALSE, NoTarget)
    /\ lbHist' = [k \in DOMAIN lbHist |-> [lbHist[k] EXCEPT !.since = 0]]
    /\ UNCHANGED <<now, ticks, cbVars, rlVars, plVars, chVars, routes, gwVars, hcVars, rtVars>>

NextLB ==
    \/ \E routeKey \in RouteKeys, i \in 1..2, isCurrentlyHealthy \in BOOLEAN,
          responseTime \in ResponseTimes :
           HealthProbe(routeKey, i, isCurrentlyHealthy, responseTime)
    \/ \E routeKey \in RouteKeys, random \in 0..(RandomDenominator - 1) :
           Dispatch(routeKey, random)
    \/ \E routeKey \in RouteKeys, random \in 0..(RandomDenominator - 1) :
           SelectTarget(routeKey, random)
    \/ \E targetUrl \in TargetUrls, responseTime \in ResponseTimes \cup {Null} :
           RequestEnds(targetUrl, responseTime)

SpecLB == InitLB /\ [][NextLB]_vars

\* The rotation of the default routes: requests dispatched to the two routes,
\* probes and resets
InitRR ==
    LoadBalancerInit({DefaultRoutes(a) : a \in {"round-robin", "weighted-round-robin"}},
                     MaxSelections, MaxProbes, MaxResets)

NextRR ==
    \/ \E routeKey \in RouteKeys, i \in 1..2, isCurrentlyHealthy \in BOOLEAN,
          responseTime \in ResponseTimes :
           HealthProbe(routeKey, i, isCurrentlyHealthy, responseTime)
    \/ \E routeKey \in RouteKeys, random \in 0..(RandomDenominator - 1) :
           Dispatch(routeKey, random)
    \/ ResetStats

SpecRR == InitRR /\ [][NextRR]_vars

-----------------------------------------------------------------------------
(* Properties of the dispatch and of the selection                           *)

\* C18: whenever handleRequest calls selectTarget, every target of the list it
\* passes is a target of the route that is healthy at that moment; and every
\* call of selectTarget returns null exactly when its input holds no healthy
\* target, and otherwise a healthy target of its input.
C18_HealthyOnly ==
    [][(lbLast' # lbLast /\ lbLast'.op \in {"dispatch", "select"} /\ lbLast'.called) =>
          LET input == lbLast'.input
              healthy == {i \in DOMAIN input : input[i].isHealthy}
          IN /\ lbLast'.op = "dispatch" =>
                    \A i \in DOMAIN input :
                        /\ input[i].isHealthy
                        /\ \E j \in DOMAIN routes[lbLast'.key].targets :
                               routes[lbLast'.key].targets[j] = input[i]
             /\ (lbLast'.ret = NoTarget) <=> (healthy = {})
             /\ lbLast'.ret # NoTarget => \E i \in healthy : input[i] = lbLast'.ret]_vars

\* A request was dispatched to a healthy target after a probe had found
\* another target of the route unhealthy
C18_Witness ==
    /\ lbLast.op = "dispatch"
    /\ lbLast.called
    /\ lbLast.ret # NoTarget
    /\ lbLast.left.probes < MaxProbes
    /\ \E j \in DOMAIN routes[lbLast.key].targets :
           /\ ~routes[lbLast.key].targets[j].isHealthy
           /\ routes[lbLast.key].targets[j].errorCount > 0

\* The selections i..(i + n - 1) of a history follow one another with no reset
\* between them and were made from the same healthy list
SameList(h, i, n) ==
    /\ i + n - 1 <= Len(h)
    /\ \A j \in i..(i + n - 1) : h[j].input = h[i].input

NoResetBetween(h, i, n) ==
    /\ i + n - 1 <= Len(h)
    /\ \A j \in i..(i + n - 1) : h[j].k = h[i].k + (j - i)

TimesSelected(h, i, n, url) == Cardinality({j \in i..(i + n - 1) : h[j].selected = url})

\* C19: for a round-robin route, the k-th selection since the counters were
\* created or cleared returns the target at index k mod n of the healthy list
\* it selects from; n consecutive selections from the same list of n targets
\* return each target once; and the position of a key is the number of its own
\* selections, whatever was selected for the other keys.
C19_RoundRobin ==
    \A key \in DOMAIN routes :
        routes[key].algorithm = "round-robin" =>
            LET h == lbHist[key].recent
            IN /\ \A i \in DOMAIN h :
                      h[i].selected = h[i].input[(h[i].k % Len(h[i].input)) + 1].url
               /\ \A i \in DOMAIN h :
                      LET n == Len(h[i].input)
                      IN (SameList(h, i, n) /\ NoResetBetween(h, i, n)) =>
                             \A t \in 1..n : TimesSelected(h, i, n, h[i].input[t].url) = 1
               /\ Lookup(roundRobinCounters, key) = lbHist[key].since

\* Three selections in a row for the round-robin route from the same two
\* targets, with a selection for the other route made meanwhile
C19_Witness ==
    \E key \in DOMAIN routes :
        /\ routes[key].algorithm = "round-robin"
        /\ Len(lbHist[key].recent) = 3
        /\ SameList(lbHist[key].recent, 1, 3)
        /\ NoResetBetween(lbHist[key].recent, 1, 3)
        /\ Len(lbHist[key].recent[1].input) = 2
        /\ \E other \in DOMAIN routes \ {key} : lbHist[other].since > 0

\* C20 as claimed: for a weighted-round-robin route, any sum(weights)
\* consecutive selections from the same healthy list return each target
\* weight-many times.
C20_Original ==
    \A key \in DOMAIN routes :
        routes[key].algorithm = "weighted-round-robin" =>
            LET h == lbHist[key].recent
            IN \A i \in DOMAIN h :
                   LET totalWeight == SumWeights(h[i].input)
                   IN SameList(h, i, totalWeight) =>
                          \A t \in DOMAIN h[i].input :
                              TimesSelected(h, i, totalWeight, h[i].input[t].url)
                                  = h[i].input[t].weight

\* C20 amended: for a weighted-round-robin route, any sum(weights) consecutive
\* selections from the same healthy list, with no reset of the counters
\* between them, return each target weight-many times.
C20_Amended ==
    \A key \in DOMAIN routes :
        routes[key].algorithm = "weighted-round-robin" =>
            LET h == lbHist[key].recent
            IN \A i \in DOMAIN h :
                   LET totalWeight == SumWeights(h[i].input)
                   IN (SameList(h, i, totalWeight) /\ NoResetBetween(h, i, totalWeight)) =>
                          \A t \in DOMAIN h[i].input :
                              TimesSelected(h, i, totalWeight, h[i].input[t].url)
                                  = h[i].input[t].weight

\* Three selections in a row from the targets of weight 2 and 1, not starting
\* at the beginning of a cycle
C20_Witness ==
    \E key \in DOMAIN routes :
        /\ routes[key].algorithm = "weighted-round-robin"
        /\ Len(lbHist[key].recent) = 3
        /\ SameList(lbHist[key].recent, 1, 3)
        /\ NoResetBetween(lbHist[key].recent, 1, 3)
        /\ SumWeights(lbHist[key].recent[1].input) = 3
        /\ lbHist[key].recent[1].k % 3 # 0

-----------------------------------------------------------------------------
(* The connection counts: requests dispatched to the default routes, their   *)
(* ends, and resets of the admin controller                                  *)

InitConn ==
    LoadBalancerInit({DefaultRoutes(a) : a \in {"least-connections", "round-robin"}},
                     MaxSelections, 0, MaxResets)

NextConn ==
    \/ \E routeKey \in RouteKeys, random \in 0..(RandomDenominator - 1) :
           Dispatch(routeKey, random)
    \/ \E targetUrl \in TargetUrls, responseTime \in ResponseTimes \cup {Null} :
           RequestEnds(targetUrl, responseTime)
    \/ ResetStats

SpecConn == InitConn /\ [][NextConn]_vars

\* C21 as claimed: in every reachable state the connection count of every
\* target url, which least-connections selects by, is the number of requests
\* being forwarded to that target.
C21_Original ==
    \A u \in TargetUrls : Lookup(connectionCounts, u) = gw.forwarding[u]

\* C22: a request that starts being forwarded to a target raises the count of
\* that target by one and no other count; a request that ends, with a response
\* or with an error, lowers the count of its target by one, not below zero, and
\* no other count; no count is negative, and when no request is being
\* forwarded every count is 0.
C22_Connections ==
    /\ [](\A u \in TargetUrls :
              /\ Lookup(connectionCounts, u) >= 0
              /\ ((\A v \in TargetUrls : gw.forwarding[v] = 0) => Lookup(connectionCounts, u) = 0))
    /\ [][\A u \in TargetUrls :
              /\ gw'.forwarding[u] = gw.forwarding[u] + 1 =>
                     /\ Lookup(connectionCounts', u) = Lookup(connectionCounts, u) + 1
                     /\ \A v \in TargetUrls \ {u} :
                            Lookup(connectionCounts', v) = Lookup(connectionCounts, v)
              /\ gw'.forwarding[u] = gw.forwarding[u] - 1 =>
                     /\ Lookup(connectionCounts', u) =
                            (IF Lookup(connectionCounts, u) > 0
                             THEN Lookup(connectionCounts, u) - 1 ELSE 0)
                     /\ \A v \in TargetUrls \ {u} :
                            Lookup(connectionCounts', v) = Lookup(connectionCounts, v)]_vars

\* Two or more requests were dispatched and all have ended, a reset was made,
\* and a count was written after the reset
C22_Witness ==
    /\ gw.requests >= 2
    /\ \A v \in TargetUrls : gw.forwarding[v] = 0
    /\ lbLast.left.resets < MaxResets
    /\ \E u \in TargetUrls : u \in DOMAIN connectionCounts

-----------------------------------------------------------------------------
(* Properties of forwardRequest and of the catch block of handleRequest      *)

\* C23 as claimed: a forward makes at most `retries` upstream calls; it ends
\* with the error of an attempt that failed with 5xx, a connect error or a
\* timeout only when `retries` attempts have been made; and after a response
\* below 500 no further attempt is made.
C23_Original ==
    /\ req.calls <= route.retries
    /\ (req.pc = "done" /\ req.calls > 0
          /\ req.result \in {"BadGatewayException", "RequestTimeoutException"}) =>
           req.calls = route.retries
    /\ req.below500 > 0 => (req.pc = "done" /\ req.below500 = 1 /\ req.result = "response")

\* C24: during a forward with a breaker config, the recordFailure calls made
\* are as many as the attempts that failed with 5xx, a connect error or a
\* timeout, and the recordSuccess calls as many as the attempts answered below
\* 500; without a failed attempt no failure is recorded.
C24_RecordedFailures ==
    req.cb =>
        /\ req.failures = req.failed
        /\ req.successes = req.below500
        /\ req.failures + req.successes <= req.calls

\* A forward with a breaker config ended after two failed attempts, both recorded
C24_Witness ==
    /\ req.cb
    /\ req.pc = "done"
    /\ req.calls = 2
    /\ req.failed = 2
    /\ req.failures = 2

\* C25 as claimed: a request of the pipeline that ends with an error of the
\* forwarder is answered 502 for a connect error or an upstream 5xx, 504 for a
\* timeout and 503 for a breaker denial; 500 only for an error of another kind.
C25_Original ==
    (req.pc = "done" /\ req.via = "pipeline" /\ req.result # "response") =>
        /\ req.result = "BadGatewayException" => req.status = 502
        /\ req.result = "RequestTimeoutException" => req.status = 504
        /\ req.result = "ServiceUnavailableException" => req.status = 503
        /\ req.status = 500 => req.result = "Error"

-----------------------------------------------------------------------------
(* The route registry of RouteConfigService and the entry and the exits of   *)
(* GatewayController.handleRequest.  A url or a route path is the sequence of *)
(* its pieces: "/", "?", a word, ":id" (a parameter) or "*".                 *)

MaxRouteSets == 2

RoutePaths ==
    {<<"/", "api", "/", "users">>,
     <<"/", "api", "/", "users", "/", ":id">>,
     <<"/", "api", "/", "*">>}

RequestUrls ==
    {<<"/", "api", "/", "users">>,
     <<"/", "api", "/", "users", "?", "page=2">>,
     <<"/", "api", "/", "users", "/", "5">>,
     <<"/", "health">>,
     <<"/", "none">>}

HttpMethods == {"GET", "POST"}

\* The x-trace-id header of a request ("" when it is not sent)
TraceHeaders == {"", "t1"}

\* What generateTraceId returns: an id no request has sent
FreshTraceId == "gw_fresh"

\* How the handler ends once a route is found: with the response of the
\* forwarder or with the error thrown on the way
Exits == {"response", "BadGatewayException", "RequestTimeoutException", "Error"}

\* pathMatches: the route path as a regular expression, ":param" for ([^/]+) and
\* "*" for .*, tested against the whole of the request url
RECURSIVE pathMatches(_, _)
pathMatches(routePath, requestPath) ==
    IF routePath = <<>> THEN requestPath = <<>>
    ELSE LET rest(k) == SubSeq(requestPath, k + 1, Len(requestPath))
         IN CASE Head(routePath) = ":id" ->
                     \E k \in 1..Len(requestPath) :
                         /\ \A j \in 1..k : requestPath[j] # "/"
                         /\ pathMatches(Tail(routePath), rest(k))
              [] Head(routePath) = "*" ->
                     \E k \in 0..Len(requestPath) : pathMatches(Tail(routePath), rest(k))
              [] OTHER ->
                     /\ requestPath # <<>>
                     /\ Head(requestPath) = Head(routePath)
                     /\ pathMatches(Tail(routePath), Tail(requestPath))

\* The first route of the registry, in the order of the Map, that satisfies
\* Test (0 when there is none)
FirstRoute(registry, Test(_)) ==
    LET found == {i \in DOMAIN registry : Test(registry[i])}
    IN IF found = {} THEN 0 ELSE CHOOSE i \in found : \A j \in found : i <= j

\* getRoute: the route stored under `${method}:${path}`
getRoute(registry, path, method) ==
    LET sameKey(r) == r.path = path /\ r.method = method
    IN FirstRoute(registry, sameKey)

\* findMatchingRoute: the position of the route in the registry, 0 for null
findMatchingRoute(registry, requestPath, method) ==
    LET exactMatch == getRoute(registry, requestPath, method)
        matches(r) == r.method = method /\ r.isActive /\ pathMatches(r.path, requestPath)
    IN IF exactMatch # 0 THEN exactMatch ELSE FirstRoute(registry, matches)

\* setRoute: Map.set under the route key, which keeps the place of a key that
\* is already there
setRoute(registry, config) ==
    LET old == getRoute(registry, config.path, config.method)
    IN IF old # 0 THEN [registry EXCEPT ![old] = config] ELSE Append(registry, config)

removeRoute(registry, path, method) ==
    LET keep(r) == ~(r.path = path /\ r.method = method)
    IN SelectSeq(registry, keep)

\* initializeDefaultRoutes: the two routes the constructor stores
initializeDefaultRoutes ==
    <<[path |-> <<"/", "api", "/", "users">>, method |-> "GET", isActive |-> TRUE],
      [path |-> <<"/", "api", "/", "orders">>, method |-> "GET", isActive |-> TRUE]>>

\* shouldSkipGateway(request.url)
shouldSkipGateway(url) ==
    \E p \in {<<"/", "health">>, <<"/", "api", "/", "v1", "/", "auth">>, <<"/", "metrics">>,
              <<"/", "favicon.ico">>} : IsPrefix(p, url)

\* The response of handleRequest: its status and its X-Trace-Id header ("" when
\* the header is not set)
Respond(g, status, xTraceId) ==
    [g EXCEPT !.pc = "done", !.status = status, !.xTraceId = xTraceId]

InitRoute ==
    /\ now = StartTime
    /\ ticks = 0
    /\ cfg = CHOOSE c \in Configs : TRUE
    /\ circuitBreakers = [k \in {} |-> createCircuitBreaker(k)]
    /\ lastOp = NoOp
    /\ hist = HistInit
    /\ rules = <<>>
    /\ windows = NoWindows
    /\ rlLast = NoCheck
    /\ rlHist = RLHistInit
    /\ route = NoRoute
    /\ req = NoRequest
    /\ pipeHist = PipeHistInit
    /\ CacheIdle
    /\ LoadBalancerIdle
    /\ MonitorIdle
    /\ gw = [pc |-> "idle", url |-> <<>>, method |-> "", traceHeader |-> "", traceId |-> "",
             route |-> 0, status |-> 0, xTraceId |-> ""]
    /\ rt = [routes |-> initializeDefaultRoutes, sets |-> 0]

\* The admin controller stores a route
SetRoute(path, method, isActive) ==
    /\ rt.sets < MaxRouteSets
    /\ rt' = [routes |-> setRoute(rt.routes, [path |-> path, method |-> method,
                                              isActive |-> isActive]),
              sets |-> rt.sets + 1]
    /\ UNCHANGED <<now, ticks, cbVars, rlVars, plVars, chVars, lbVars, gwVars, hcVars>>

\* The admin controller removes a route
RemoveRoute(path, method) ==
    /\ getRoute(rt.routes, path, method) # 0
    /\ rt' = [rt EXCEPT !.routes = removeRoute(rt.routes, path, method)]
    /\ UNCHANGED <<now, ticks, cbVars, rlVars, plVars, chVars, lbVars, gwVars, hcVars>>

\* handleRequest up to the route: the trace id, the reserved paths, and
\* findMatchingRoute with request.url; without a route the catch block answers
\* the NotFoundException.
EnterRequest(url, method, traceHeader) ==
    LET traceId == IF traceHeader # "" THEN traceHeader ELSE FreshTraceId
        found == findMatchingRoute(rt.routes, url, method)
        g == [pc |-> "routing", url |-> url, method |-> method, traceHeader |-> traceHeader,
              traceId |-> traceId, route |-> 0, status |-> 0, xTraceId |-> ""]
    IN /\ gw.pc \in {"idle", "done"}
       /\ gw' = IF shouldSkipGateway(url) THEN Respond(g, 404, "")
                ELSE IF found = 0 THEN Respond(g, ErrorStatus("NotFoundException"), traceId)
                ELSE [g EXCEPT !.pc = "routed", !.route = found]
       /\ UNCHANGED <<now, ticks, cbVars, rlVars, plVars, chVars, lbVars, hcVars, rtVars>>

\* handleRequest from the route on: the response of the target is sent with the
\* gateway headers, or the catch block answers the error.
ExitRequest(exit) ==
    /\ gw.pc = "routed"
    /\ gw' = IF exit = "response" THEN Respond(gw, 200, gw.traceId)
             ELSE Respond(gw, ErrorStatus(exit), gw.traceId)
    /\ UNCHANGED <<now, ticks, cbVars, rlVars, plVars, chVars, lbVars, hcVars, rtVars>>

NextRoute ==
    \/ \E path \in RoutePaths, method \in HttpMethods, isActive \in BOOLEAN :
           SetRoute(path, method, isActive)
    \/ \E path \in RoutePaths, method \in HttpMethods : RemoveRoute(path, method)
    \/ \E url \in RequestUrls, method \in HttpMethods, traceHeader \in TraceHeaders :
           EnterRequest(url, method, traceHeader)
    \/ \E exit \in Exits : ExitRequest(exit)

SpecRoute == InitRoute /\ [][NextRoute]_vars

\* C26 as claimed: every response of handleRequest carries an X-Trace-Id header
\* equal to the request's x-trace-id when one was sent, otherwise to the
\* generated id.
C26_Original ==
    gw.pc = "done" =>
        gw.xTraceId = (IF gw.traceHeader # "" THEN gw.traceHeader ELSE FreshTraceId)

\* The url up to its query string
PathOf(url) ==
    LET marks == {i \in DOMAIN url : url[i] = "?"}
    IN IF marks = {} THEN url
       ELSE SubSeq(url, 1, (CHOOSE i \in marks : \A j \in marks : i <= j) - 1)

\* A request has just entered handleRequest, on a path that is not reserved
Entered == gw' # gw /\ gw'.pc \in {"routed", "done"} /\ gw.pc \in {"idle", "done"}
              /\ ~shouldSkipGateway(gw'.url)

\* C27 as claimed: the route a request is matched to is the route its url
\* without the query string is matched to.
C27_Original ==
    [][Entered => gw'.route = findMatchingRoute(rt.routes, PathOf(gw'.url), gw'.method)]_vars

\* The pieces of a route path before its first parameter or "*"
RECURSIVE LiteralPrefix(_)
LiteralPrefix(path) ==
    IF path = <<>> \/ Head(path) \in {":id", "*"} THEN 0 ELSE 1 + LiteralPrefix(Tail(path))

\* C28 as claimed: a request without an exact route that matches several
\* active patterns of its method is matched to a pattern whose literal prefix
\* is the longest, whatever the order in which the routes were put.
C28_Original ==
    [][(Entered /\ getRoute(rt.routes, gw'.url, gw'.method) = 0) =>
          \A i \in DOMAIN rt.routes :
              (rt.routes[i].method = gw'.method /\ rt.routes[i].isActive
                 /\ pathMatches(rt.routes[i].path, gw'.url)) =>
                  /\ gw'.route # 0
                  /\ LiteralPrefix(rt.routes[gw'.route].path) >= LiteralPrefix(rt.routes[i].path)]_vars

-----------------------------------------------------------------------------
(* The health monitor, HealthCheckService: the timers of the routes, the     *)
(* probes that are awaiting their answer, and the shutdown.                   *)

MaxRounds == 2

\* The probes of the targets, each with the number of checkTargetHealth calls
\* that await proxyService.healthCheck
Probes == RouteKeys \X (1..2)

NoProbe == [routeKey |-> "", i |-> 0, isHealthy |-> FALSE, before |-> createTarget("", 0)]

InitHealth ==
    /\ now = StartTime
    /\ ticks = 0
    /\ cfg = CHOOSE c \in Configs : TRUE
    /\ circuitBreakers = [k \in {} |-> createCircuitBreaker(k)]
    /\ lastOp = NoOp
    /\ hist = HistInit
    /\ rules = <<>>
    /\ windows = NoWindows
    /\ rlLast = NoCheck
    /\ rlHist = RLHistInit
    /\ route = NoRoute
    /\ req = NoRequest
    /\ pipeHist = PipeHistInit
    /\ CacheIdle
    /\ routes = DefaultRoutes("round-robin")
    /\ roundRobinCounters = <<>>
    /\ connectionCounts = <<>>
    /\ lbLast = NoSelection
    /\ lbHist = <<>>
    /\ GatewayIdle
    /\ RegistryIdle
    /\ hc = [isShuttingDown |-> FALSE, started |-> FALSE, healthCheckIntervals |-> {},
             immediates |-> {}, inflight |-> [p \in Probes |-> 0], last |-> NoProbe,
             rounds |-> MaxRounds]

\* performHealthChecks: checkTargetHealth is called for every target of the
\* route, and each call runs up to its await
performHealthChecks(h, routeKey) ==
    [h EXCEPT !.inflight = [p \in Probes |-> IF p[1] = routeKey THEN @[p] + 1 ELSE @[p]]]

\* onModuleInit: startHealthCheckForRoute for every route, which sets the
\* interval and queues the initial check with setImmediate
OnModuleInit ==
    /\ ~hc.started
    /\ hc' = [hc EXCEPT !.started = TRUE,
                        !.healthCheckIntervals = DOMAIN routes,
                        !.immediates = DOMAIN routes]
    /\ UNCHANGED <<now, ticks, cbVars, rlVars, plVars, chVars, lbVars, gwVars, rtVars>>

\* The callback of setImmediate: the initial check of the route
InitialCheck(routeKey) ==
    /\ routeKey \in hc.immediates
    /\ hc' = performHealthChecks([hc EXCEPT !.immediates = @ \ {routeKey}], routeKey)
    /\ UNCHANGED <<now, ticks, cbVars, rlVars, plVars, chVars, lbVars, gwVars, rtVars>>

\* The callback of setInterval
IntervalFires(routeKey) ==
    /\ routeKey \in hc.healthCheckIntervals
    /\ hc.rounds > 0
    /\ hc' = IF hc.isShuttingDown THEN [hc EXCEPT !.rounds = @ - 1]
             ELSE performHealthChecks([hc EXCEPT !.rounds = @ - 1], routeKey)
    /\ UNCHANGED <<now, ticks, cbVars, rlVars, plVars, chVars, lbVars, gwVars, rtVars>>

\* checkTargetHealth after its await: the answer of the probe (an error of the
\* probe counts as unhealthy) goes to updateTargetHealthStatus
ProbeCompletes(routeKey, i, isHealthy, responseTime) ==
    /\ hc.inflight[<<routeKey, i>>] > 0
    /\ routes' = [routes EXCEPT ![routeKey].targets[i] =
                      updateTargetHealthStatus(@, isHealthy, responseTime)]
    /\ hc' = [hc EXCEPT !.inflight[<<routeKey, i>>] = @ - 1,
                        !.last = [routeKey |-> routeKey, i |-> i, isHealthy |-> isHealthy,
                                  before |-> routes[routeKey].targets[i]]]
    /\ UNCHANGED <<now, ticks, cbVars, rlVars, plVars, chVars,
                   roundRobinCounters, connectionCounts, lbLast, lbHist, gwVars, rtVars>>

\* onModuleDestroy: the flag, then stopAllHealthChecks clears the intervals
OnModuleDestroy ==
    /\ hc.started
    /\ ~hc.isShuttingDown
    /\ hc' = [hc EXCEPT !.isShuttingDown = TRUE, !.healthCheckIntervals = {}]
    /\ UNCHANGED <<now, ticks, cbVars, rlVars, plVars, chVars, lbVars, gwVars, rtVars>>

NextHealth ==
    \/ OnModuleInit
    \/ \E routeKey \in RouteKeys : InitialCheck(routeKey)
    \/ \E routeKey \in RouteKeys : IntervalFires(routeKey)
    \/ \E routeKey \in RouteKeys, i \in 1..2, isHealthy \in BOOLEAN,
          responseTime \in ResponseTimes :
           ProbeCompletes(routeKey, i, isHealthy, responseTime)
    \/ OnModuleDestroy

SpecHealth == InitHealth /\ [][NextHealth]_vars

\* The probe of target i of the route has completed in this step
Completed(routeKey, i) == hc'.inflight[<<routeKey, i>>] = hc.inflight[<<routeKey, i>>] - 1

C30_Original ==
    [][hc.isShuttingDown =>
          /\ routes' = routes
          /\ \A p \in Probes : hc'.inflight[p] <= hc.inflight[p]]_vars

-----------------------------------------------------------------------------
(* The guards of the application: JwtAuthGuard, then PermissionsGuard, then  *)
(* the handler of the endpoint.  An array is a sequence; the Authorization    *)
(* header is the sequence of the parts that split(' ') gives.                 *)

\* Role and Permission of auth.types.ts, the permissions the endpoints ask for
Roles == {"admin", "user", "moderator", "guest"}

ROLE_PERMISSIONS(role) ==
    CASE role = "admin" -> <<"read:user", "configure:routes", "view:metrics">>
      [] role = "moderator" -> <<"read:user", "view:metrics">>
      [] role = "user" -> <<"read:user">>
      [] OTHER -> <<>>

\* The payload the verification of a token gives; "none" when verifyAsync
\* rejects the token (bad signature, expired)
NoPayload == [sub |-> "", username |-> "", roles |-> <<>>, permissions |-> <<>>]

Payload(token) ==
    CASE token = "tok_user" ->
             [sub |-> "1", username |-> "u", roles |-> <<"user">>, permissions |-> <<"read:user">>]
      [] token = "tok_moderator" ->
             [sub |-> "2", username |-> "m", roles |-> <<"moderator">>,
              permissions |-> <<"read:user", "view:metrics">>]
      [] token = "tok_admin" ->
             [sub |-> "3", username |-> "a", roles |-> <<"user", "admin">>,
              permissions |-> <<"read:user", "configure:routes", "view:metrics">>]
      [] token = "tok_direct" ->
             [sub |-> "4", username |-> "d", roles |-> <<"guest">>,
              permissions |-> <<"configure:routes">>]
      [] token = "tok_refresh" ->
             [sub |-> "1", username |-> "", roles |-> <<>>, permissions |-> <<>>]
      [] OTHER -> NoPayload

Tokens == {"tok_user", "tok_moderator", "tok_admin", "tok_direct", "tok_refresh",
           "tok_expired", "tok_forged"}

\* The tokens whose signature and expiry nestJwtService.verifyAsync accepts
Signed == {"tok_user", "tok_moderator", "tok_admin", "tok_direct", "tok_refresh"}

AuthHeaders ==
    {<<>>, <<"Bearer">>} \cup {<<"Bearer", t>> : t \in Tokens}
        \cup {<<"Basic", "tok_admin">>, <<"bearer", "tok_admin">>, <<"Bearer", "", "tok_admin">>}

\* The metadata of an endpoint as the Reflector reads it; NotSet, FALSE or ""
\* for a key that no decorator has set
NotSet == <<"undefined">>

Endpoints ==
    {[name |-> "login", isPublic |-> TRUE, roles |-> NotSet, permissions |-> NotSet, logic |-> ""],
     [name |-> "profile", isPublic |-> FALSE, roles |-> NotSet, permissions |-> NotSet, logic |-> ""],
     [name |-> "admin-only", isPublic |-> FALSE, roles |-> <<"admin">>, permissions |-> NotSet,
      logic |-> ""],
     [name |-> "view-metrics", isPublic |-> FALSE, roles |-> NotSet,
      permissions |-> <<"view:metrics">>, logic |-> ""],
     [name |-> "staff", isPublic |-> FALSE, roles |-> <<"admin", "moderator">>,
      permissions |-> <<"view:metrics", "configure:routes">>, logic |-> ""],
     [name |-> "any-of", isPublic |-> FALSE, roles |-> NotSet,
      permissions |-> <<"view:metrics", "configure:routes">>, logic |-> "OR"],
     [name |-> "all-of", isPublic |-> FALSE, roles |-> NotSet,
      permissions |-> <<"view:metrics", "configure:routes">>, logic |-> "AND"]}

\* Array.prototype.includes
ArrayIncludes(array, x) == \E i \in DOMAIN array : array[i] = x

\* JwtService.extractTokenFromHeader; "" for null
extractTokenFromHeader(authHeader) ==
    IF authHeader = <<>> THEN ""
    ELSE IF authHeader[1] = "Bearer" /\ Len(authHeader) >= 2 /\ authHeader[2] # ""
         THEN authHeader[2] ELSE ""

\* JwtService.verifyAccessToken: the payload, or NoPayload for the
\* UnauthorizedException
verifyAccessToken(token) ==
    IF token \notin Signed THEN NoPayload
    ELSE IF Payload(token).sub = "" \/ Payload(token).username = "" THEN NoPayload
    ELSE Payload(token)

\* RbacService
hasAnyRole_All(userRoles, requiredRoles) ==
    \A i \in DOMAIN requiredRoles : ArrayIncludes(userRoles, requiredRoles[i])

hasAnyRole(userRoles, requiredRoles) ==
    \E i \in DOMAIN requiredRoles : ArrayIncludes(userRoles, requiredRoles[i])

hasAnyPermission(userPermissions, requiredPermissions) ==
    \E i \in DOMAIN requiredPermissions : ArrayIncludes(userPermissions, requiredPermissions[i])

hasAllPermissions(userPermissions, requiredPermissions) ==
    \A i \in DOMAIN requiredPermissions : ArrayIncludes(userPermissions, requiredPermissions[i])

RECURSIVE getPermissionsForRoles(_)
getPermissionsForRoles(roles) ==
    IF roles = <<>> THEN <<>> ELSE ROLE_PERMISSIONS(Head(roles)) \o getPermissionsForRoles(Tail(roles))

\* getEffectivePermissions: the permissions of the roles, then the direct ones
\* (the Set of the code only drops the repetitions)
getEffectivePermissions(user) == getPermissionsForRoles(user.roles) \o user.permissions

\* PermissionsGuard.canActivate for an endpoint that is not public, with the
\* user that JwtAuthGuard attached: TRUE, or FALSE for the ForbiddenException
PermissionsGuard(endpoint, user) ==
    LET permissionLogic == IF endpoint.logic = "" THEN "OR" ELSE endpoint.logic
        userPermissions == getEffectivePermissions(user)
    IN /\ user # NoPayload
       /\ endpoint.roles # NotSet => hasAnyRole(user.roles, endpoint.roles)
       /\ endpoint.permissions # NotSet =>
              IF permissionLogic = "AND"
              THEN hasAllPermissions(userPermissions, endpoint.permissions)
              ELSE hasAnyPermission(userPermissions, endpoint.permissions)

NoGuardedRequest ==
    [pc |-> "idle", endpoint |-> CHOOSE e \in Endpoints : e.name = "login", authHeader |-> <<>>,
     token |-> "", user |-> NoPayload, status |-> 0, handler |-> FALSE]

InitAuth ==
    /\ now = StartTime
    /\ ticks = 0
    /\ cfg = CHOOSE c \in Configs : TRUE
    /\ circuitBreakers = [k \in {} |-> createCircuitBreaker(k)]
    /\ lastOp = NoOp
    /\ hist = HistInit
    /\ rules = <<>>
    /\ windows = NoWindows
    /\ rlLast = NoCheck
    /\ rlHist = RLHistInit
    /\ route = NoRoute
    /\ req = NoRequest
    /\ pipeHist = PipeHistInit
    /\ CacheIdle
    /\ LoadBalancerIdle
    /\ MonitorIdle
    /\ RegistryIdle
    /\ gw = NoGuardedRequest

\* JwtAuthGuard.canActivate up to its await: a public endpoint passes, a request
\* without a token is answered 401
JwtAuthGuard(endpoint, authHeader) ==
    LET g == [NoGuardedRequest EXCEPT !.endpoint = endpoint, !.authHeader = authHeader,
                                      !.token = extractTokenFromHeader(authHeader)]
    IN /\ gw.pc \in {"idle", "done"}
       /\ gw' = IF endpoint.isPublic THEN [g EXCEPT !.pc = "PermissionsGuard"]
                ELSE IF g.token = "" THEN [g EXCEPT !.pc = "done", !.status = 401]
                ELSE [g EXCEPT !.pc = "verifyAccessToken"]
       /\ UNCHANGED <<now, ticks, cbVars, rlVars, plVars, chVars, lbVars, hcVars, rtVars>>

\* JwtAuthGuard.canActivate after the await: the payload becomes request.user,
\* or the request is answered 401
TokenVerified ==
    /\ gw.pc = "verifyAccessToken"
    /\ gw' = IF verifyAccessToken(gw.token) = NoPayload
             THEN [gw EXCEPT !.pc = "done", !.status = 401]
             ELSE [gw EXCEPT !.pc = "PermissionsGuard", !.user = verifyAccessToken(gw.token)]
    /\ UNCHANGED <<now, ticks, cbVars, rlVars, plVars, chVars, lbVars, hcVars, rtVars>>

\* PermissionsGuard.canActivate: the handler is next, or the request is
\* answered 403
PermissionsGuardCanActivate ==
    /\ gw.pc = "PermissionsGuard"
    /\ gw' = IF gw.endpoint.isPublic \/ PermissionsGuard(gw.endpoint, gw.user)
             THEN [gw EXCEPT !.pc = "handler"]
             ELSE [gw EXCEPT !.pc = "done", !.status = 403]
    /\ UNCHANGED <<now, ticks, cbVars, rlVars, plVars, chVars, lbVars, hcVars, rtVars>>

\* The handler of the endpoint runs and answers
RunHandler ==
    /\ gw.pc = "handler"
    /\ gw' = [gw EXCEPT !.pc = "done", !.status = 200, !.handler = TRUE]
    /\ UNCHANGED <<now, ticks, cbVars, rlVars, plVars, chVars, lbVars, hcVars, rtVars>>

NextAuth ==
    \/ \E endpoint \in Endpoints, authHeader \in AuthHeaders : JwtAuthGuard(endpoint, authHeader)
    \/ TokenVerified
    \/ PermissionsGuardCanActivate
    \/ RunHandler

SpecAuth == InitAuth /\ [][NextAuth]_vars

\* The bearer token of the request ("" without one), and the principal it
\* verifies to
BearerOf(g) ==
    IF Len(g.authHeader) = 2 /\ g.authHeader[1] = "Bearer" THEN g.authHeader[2] ELSE ""

Verified(g) == BearerOf(g) \in Signed \ {"tok_refresh"}

RolesOf(g) == {Payload(BearerOf(g)).roles[i] : i \in DOMAIN Payload(BearerOf(g)).roles}

PermissionsOf(g) ==
    {Payload(BearerOf(g)).permissions[i] : i \in DOMAIN Payload(BearerOf(g)).permissions}
        \cup UNION {{ROLE_PERMISSIONS(r)[i] : i \in DOMAIN ROLE_PERMISSIONS(r)} : r \in RolesOf(g)}

Required(array) == {array[i] : i \in DOMAIN array}

Allowed(g) ==
    /\ g.endpoint.roles # NotSet => Required(g.endpoint.roles) \cap RolesOf(g) # {}
    /\ g.endpoint.permissions # NotSet =>
           IF g.endpoint.logic = "AND"
           THEN Required(g.endpoint.permissions) \subseteq PermissionsOf(g)
           ELSE Required(g.endpoint.permissions) \cap PermissionsOf(g) # {}

\* C31: on an endpoint that is not public, a request without a bearer token or
\* with a token that fails verification is answered 401 and the handler does
\* not run; a verified request whose principal has none of the required roles,
\* or none (all-logic: not all) of the required permissions, is answered 403
\* and the handler does not run; otherwise the handler runs.  The handler never
\* runs before both guards have passed.
C31_Guards ==
    /\ (gw.pc = "done" /\ ~gw.endpoint.isPublic) =>
           /\ ~Verified(gw) => (gw.status = 401 /\ ~gw.handler)
           /\ (Verified(gw) /\ ~Allowed(gw)) => (gw.status = 403 /\ ~gw.handler)
           /\ (Verified(gw) /\ Allowed(gw)) => gw.handler
    /\ (gw.pc = "handler" /\ ~gw.endpoint.isPublic) => (Verified(gw) /\ Allowed(gw))

\* A verified principal with one of the required roles was answered 403 for
\* the lack of one of the permissions that are all required
C31_Witness ==
    /\ gw.pc = "done"
    /\ gw.status = 403
    /\ gw.endpoint.logic = "AND"
    /\ gw.user.username = "m"

-----------------------------------------------------------------------------
(* The breaker under a disabled config *)

\* C32: a canExecute under a config with enabled = false returns true, and a
\* canExecute, recordSuccess or recordFailure under such a config leaves the
\* map of breakers as it was: no instance is created and none is changed.  An
\* instance is only ever created by one of these calls under an enabled config
\* for its own key.
C32_Disabled ==
    [][/\ (lastOp'.op \in {"canExecute", "recordSuccess", "recordFailure"} /\ ~lastOp'.en) =>
              /\ circuitBreakers' = circuitBreakers
              /\ lastOp'.op = "canExecute" => lastOp'.ret
       /\ \A k \in DOMAIN circuitBreakers' \ DOMAIN circuitBreakers :
              /\ lastOp'.op \in {"canExecute", "recordSuccess", "recordFailure"}
              /\ lastOp'.en
              /\ lastOp'.key = k]_vars

\* A canExecute under a disabled config has returned true for a pair whose
\* breaker is OPEN before its retry time, and the breaker is still OPEN
C32_Witness ==
    /\ lastOp.op = "canExecute"
    /\ ~lastOp.en
    /\ lastOp.ret
    /\ lastOp.pre = "OPEN"
    /\ StateOf(circuitBreakers, lastOp.key) = "OPEN"
    /\ now < circuitBreakers[lastOp.key].nextAttemptTime

-----------------------------------------------------------------------------
(* selectTarget by a metric of the targets: least-response-time and          *)
(* health-based, on lists of three targets with any flags and metrics        *)

MaxMetric == 2
MaxSelects == 1

MetricTargets ==
    [url : {"order-service"}, weight : {1}, isHealthy : BOOLEAN,
     responseTime : 0..MaxMetric, errorCount : 0..MaxMetric]

MetricRoutes ==
    {[k \in {"GET:/api/orders"} |->
         [algorithm |-> a,
          targets |-> <<t1, [t2 EXCEPT !.url = "order-service-v2"],
                        [t3 EXCEPT !.url = "order-service-v3"]>>]] :
     a \in {"least-response-time", "health-based"},
     t1 \in MetricTargets, t2 \in MetricTargets, t3 \in MetricTargets}

InitSelect == LoadBalancerInit(MetricRoutes, MaxSelects, 0, 0)

NextSelect == \E routeKey \in RouteKeys, random \in 0..(RandomDenominator - 1) :
                  SelectTarget(routeKey, random)

SpecSelect == InitSelect /\ [][NextSelect]_vars

\* C33: from a list with at least one healthy target, least-response-time
\* returns a healthy target of the list whose responseTime is the least among
\* the healthy ones, and health-based a healthy target whose errorCount is the
\* least among the healthy ones, whatever the metrics of the unhealthy targets.
C33_ByMetric ==
    (lbLast.op = "select" /\ \E i \in DOMAIN lbLast.input : lbLast.input[i].isHealthy) =>
        LET input == lbLast.input
            healthy == {i \in DOMAIN input : input[i].isHealthy}
            algorithm == routes[lbLast.key].algorithm
        IN /\ \E i \in healthy : input[i] = lbLast.ret
           /\ algorithm = "least-response-time" =>
                  \A i \in healthy : lbLast.ret.responseTime <= input[i].responseTime
           /\ algorithm = "health-based" =>
                  \A i \in healthy : lbLast.ret.errorCount <= input[i].errorCount

\* least-response-time has returned the faster of two healthy targets, which
\* is not the first of the list, while the unhealthy target was faster still
C33_Witness ==
    /\ lbLast.op = "select"
    /\ routes[lbLast.key].algorithm = "least-response-time"
    /\ lbLast.ret = lbLast.input[3]
    /\ lbLast.input[3].responseTime = 1
    /\ lbLast.input[2].isHealthy /\ lbLast.input[2].responseTime = 2
    /\ ~lbLast.input[1].isHealthy /\ lbLast.input[1].responseTime = 0

-----------------------------------------------------------------------------
(* CacheService.getOrSet: a call reads the cache, and on a miss awaits its   *)
(* callback and then stores what the callback gave.  Calls of several        *)
(* callers overlap at the await.  chLast.calls counts the calls.             *)

Callers == {"c1", "c2"}

GetOrSetKeys == {"k1"}

\* What a callback resolves to: a value, or null
Produced == {"v1", NoValue}

\* estimateSize of what the callbacks produce: 0 for null
SizeOfProduced(value) == IF value = NoValue THEN 0 ELSE 1

NoCaller ==
    [pc |-> "idle", key |-> "", found |-> FALSE, foundValue |-> NoValue, callbacks |-> 0,
     ret |-> NoValue]

InitGetOrSet ==
    /\ now = StartTime
    /\ ticks = 0
    /\ cfg = CHOOSE c \in Configs : TRUE
    /\ circuitBreakers = [k \in {} |-> createCircuitBreaker(k)]
    /\ lastOp = NoOp
    /\ hist = HistInit
    /\ rules = <<>>
    /\ windows = NoWindows
    /\ rlLast = NoCheck
    /\ rlHist = RLHistInit
    /\ route = NoRoute
    /\ req = NoRequest
    /\ pipeHist = PipeHistInit
    /\ cache = <<>>
    /\ cacheStats = [hits |-> 0, misses |-> 0, evictions |-> 0]
    /\ chLast = [op |-> "init", key |-> "", calls |-> 0, callers |-> [c \in Callers |-> NoCaller]]
    /\ LoadBalancerIdle
    /\ GatewayIdle
    /\ MonitorIdle
    /\ RegistryIdle

GetOrSetTick ==
    /\ ticks < MaxCacheTicks
    /\ now' = now + 1
    /\ ticks' = ticks + 1
    /\ chLast' = [chLast EXCEPT !.op = "tick", !.key = ""]
    /\ UNCHANGED <<cbVars, rlVars, plVars, cache, cacheStats, lbVars, gwVars, hcVars, rtVars>>

\* getOrSet up to its await: get(key), and the callback is called when get
\* gave null.  found and foundValue record the entry of the key that had not
\* expired when the call was made.
GetOrSet(c, key) ==
    LET r == get(cache, key, now)
        found == HasKey(cache, key) /\ ~IsExpired(now, EntryOf(cache, key).expiresAt)
        call == [NoCaller EXCEPT !.key = key, !.found = found,
                                 !.foundValue = IF found THEN EntryOf(cache, key).owner
                                                ELSE NoValue]
    IN /\ chLast.callers[c].pc \in {"idle", "done"}
       /\ chLast.calls < MaxCacheOps
       /\ cache' = r.cache
       /\ cacheStats' = IF r.hit THEN [cacheStats EXCEPT !.hits = @ + 1]
                        ELSE [cacheStats EXCEPT !.misses = @ + 1]
       /\ chLast' = [chLast EXCEPT
              !.op = "getOrSet", !.key = key, !.calls = @ + 1,
              !.callers[c] = IF r.ret # NoValue
                             THEN [call EXCEPT !.pc = "done", !.ret = r.ret]
                             ELSE [call EXCEPT !.pc = "callback", !.callbacks = 1]]
       /\ UNCHANGED <<now, ticks, cbVars, rlVars, plVars, lbVars, gwVars, hcVars, rtVars>>

\* getOrSet after its await: set(key, value, ttl) and the value is returned
CallbackResolves(c, value) ==
    LET key == chLast.callers[c].key
        r == set(cache, key, value, SizeOfProduced(value), Null, now)
    IN /\ chLast.callers[c].pc = "callback"
       /\ cache' = r.cache
       /\ cacheStats' = [cacheStats EXCEPT !.evictions = @ + Len(r.evicted)]
       /\ chLast' = [chLast EXCEPT !.op = "set", !.key = key,
                                   !.callers[c].pc = "done", !.callers[c].ret = value]
       /\ UNCHANGED <<now, ticks, cbVars, rlVars, plVars, lbVars, gwVars, hcVars, rtVars>>

NextGetOrSet ==
    \/ GetOrSetTick
    \/ \E c \in Callers, key \in GetOrSetKeys : GetOrSet(c, key)
    \/ \E c \in Callers, value \in Produced : CallbackResolves(c, value)

SpecGetOrSet == InitGetOrSet /\ [][NextGetOrSet]_vars

\* C34 as claimed: a call of getOrSet made while the key has an entry that has
\* not expired returns the value of that entry and does not call its callback;
\* any other call calls its callback exactly once and returns what it gave.
C34_Original ==
    \A c \in Callers :
        LET call == chLast.callers[c]
        IN /\ (call.pc # "idle" /\ call.found) =>
                  /\ call.callbacks = 0
                  /\ call.pc = "done"
                  /\ call.ret = call.foundValue
           /\ (call.pc # "idle" /\ ~call.found) => call.callbacks = 1

-----------------------------------------------------------------------------
(* POST /auth/register: the validation pipe of RegisterSchema, then the      *)
(* handler of AuthController.  A string is the sequence of its characters.   *)

UpperCase == {"A", "B", "D", "N", "P", "Q", "S", "T", "X"}
LowerCase == {"a", "c", "d", "e", "g", "i", "k", "l", "n", "o", "p", "r", "s", "t", "w", "x", "y", "z"}
Digits == {"0", "1", "2", "3", "9"}
Specials == {"!"}

\* String.prototype.toLowerCase on the letters in use
ToLower(ch) ==
    CASE ch = "A" -> "a"
      [] ch = "B" -> "b"
      [] ch = "D" -> "d"
      [] ch = "N" -> "n"
      [] ch = "P" -> "p"
      [] ch = "Q" -> "q"
      [] ch = "S" -> "s"
      [] ch = "T" -> "t"
      [] ch = "X" -> "x"
      [] OTHER -> ch

Passwords ==
    {<<"T", "e", "s", "t", "P", "a", "s", "s", "w", "o", "r", "d", "1", "2", "3", "!">>,
     <<"w", "e", "a", "k">>,
     <<"S", "t", "r", "0", "n", "g", "!", "P", "w">>,
     <<"A", "a", "a", "a", "1", "!", "x", "y", "z">>,
     <<"X", "y", "9", "!", "a", "B", "c", "Q", "r">>,
     <<"l", "o", "w", "e", "r", "1", "!", "c", "a", "s", "e">>,
     <<"N", "o", "D", "i", "g", "i", "t", "!", "x">>,
     <<"N", "o", "S", "p", "e", "c", "i", "a", "l", "1", "x">>}

Usernames == {<<"t", "e", "s", "t", "u", "s", "e", "r">>, <<"x">>}

Emails == {"test@example.com", "not-an-email"}

RegisterBodies ==
    [username : Usernames, email : Emails, password : Passwords, confirmPassword : Passwords]

HasChar(string, class) == \E i \in DOMAIN string : string[i] \in class

\* The string holds the word, letters compared without case (the i flag)
ContainsWord(string, word) ==
    \E i \in 1..(Len(string) - Len(word) + 1) :
        \A j \in 1..Len(word) : ToLower(string[i + j - 1]) = word[j]

\* /(.)\1{2,}/: three or more of the same character in a row
HasRepeatedRun(string) ==
    \E i \in 1..(Len(string) - 2) : string[i] = string[i + 1] /\ string[i + 1] = string[i + 2]

CommonPatterns == {<<"1", "2", "3">>, <<"a", "b", "c">>, <<"q", "w", "e">>, <<"p", "a", "s", "s", "w", "o", "r", "d">>, <<"a", "d", "m", "i", "n">>}

\* PasswordService.validatePasswordStrength(password).isValid
validatePasswordStrength(password) ==
    /\ Len(password) >= 8
    /\ Len(password) <= 128
    /\ HasChar(password, UpperCase)
    /\ HasChar(password, LowerCase)
    /\ HasChar(password, Digits)
    /\ HasChar(password, Specials)
    /\ ~HasRepeatedRun(password)
    /\ ~\E word \in CommonPatterns : ContainsWord(password, word)

\* RegisterSchema: whether the body parses
RegisterSchema(body) ==
    /\ Len(body.username) >= 3
    /\ body.email = "test@example.com"
    /\ Len(body.password) >= 8
    /\ Len(body.password) <= 128
    /\ HasChar(body.password, LowerCase)
    /\ HasChar(body.password, UpperCase)
    /\ HasChar(body.password, Digits)
    /\ HasChar(body.password, Specials)
    /\ body.password = body.confirmPassword

NoRegistration ==
    [pc |-> "idle", body |-> CHOOSE b \in RegisterBodies : TRUE, status |-> 0,
     message |-> "", tokens |-> FALSE]

InitRegister ==
    /\ now = StartTime
    /\ ticks = 0
    /\ cfg = CHOOSE c \in Configs : TRUE
    /\ circuitBreakers = [k \in {} |-> createCircuitBreaker(k)]
    /\ lastOp = NoOp
    /\ hist = HistInit
    /\ rules = <<>>
    /\ windows = NoWindows
    /\ rlLast = NoCheck
    /\ rlHist = RLHistInit
    /\ route = NoRoute
    /\ req = NoRequest
    /\ pipeHist = PipeHistInit
    /\ CacheIdle
    /\ LoadBalancerIdle
    /\ MonitorIdle
    /\ RegistryIdle
    /\ gw = NoRegistration

\* The request reaches the validation pipe (the endpoint is public): a body
\* that does not parse is answered 400 'Validation failed'
ValidateBody(body) ==
    /\ gw.pc \in {"idle", "done"}
    /\ gw' = IF RegisterSchema(body)
             THEN [NoRegistration EXCEPT !.pc = "register", !.body = body]
             ELSE [NoRegistration EXCEPT !.pc = "done", !.body = body, !.status = 400,
                                         !.message = "Validation failed"]
    /\ UNCHANGED <<now, ticks, cbVars, rlVars, plVars, chVars, lbVars, hcVars, rtVars>>

\* register up to its first await: a password that validatePasswordStrength
\* rejects makes the handler return {message, errors}, which is sent with the
\* status of a POST handler, 201
Register ==
    /\ gw.pc = "register"
    /\ gw' = IF ~validatePasswordStrength(gw.body.password)
             THEN [gw EXCEPT !.pc = "done", !.status = 201,
                             !.message = "Password validation failed"]
             ELSE [gw EXCEPT !.pc = "generateTokenPair"]
    /\ UNCHANGED <<now, ticks, cbVars, rlVars, plVars, chVars, lbVars, hcVars, rtVars>>

\* register after hashPassword and generateTokenPair: {message, user, tokens}
RegisterReturns ==
    /\ gw.pc = "generateTokenPair"
    /\ gw' = [gw EXCEPT !.pc = "done", !.status = 201, !.message = "Registration successful",
                        !.tokens = TRUE]
    /\ UNCHANGED <<now, ticks, cbVars, rlVars, plVars, chVars, lbVars, hcVars, rtVars>>

NextRegister ==
    \/ \E body \in RegisterBodies : ValidateBody(body)
    \/ Register
    \/ RegisterReturns

SpecRegister == InitRegister /\ [][NextRegister]_vars

\* C35 as claimed: a register request (with a valid username and email) is
\* answered 201 with the tokens when its password satisfies all the password
\* rules and equals confirmPassword, and 400 without tokens otherwise.
C35_Original ==
    (gw.pc = "done" /\ Len(gw.body.username) >= 3 /\ gw.body.email = "test@example.com") =>
        IF validatePasswordStrength(gw.body.password)
              /\ gw.body.password = gw.body.confirmPassword
        THEN gw.status = 201 /\ gw.tokens
        ELSE gw.status = 400 /\ ~gw.tokens

-----------------------------------------------------------------------------
(* The forwarder and the breaker of its target *)

\* The breaker of the request's pair is OPEN and its retry time is still ahead
OpenNow(cbs, k, t) == StateOf(cbs, k) = "OPEN" /\ t < cbs[k].nextAttemptTime

-----------------------------------------------------------------------------
(* What a denied check leaves in the windows *)

\* The count of the window of a key that is live at time t: 0 when the key has
\* no window or its window has expired
LiveCount(ws, key, t) ==
    IF key \in DOMAIN ws /\ ~Expired(t, ws[key].resetTime) THEN ws[key].count ELSE 0

\* C37: when checkRateLimit denies a request, the window of the denying rule
\* is live and keeps its count, the windows of the rules listed after it are
\* as they were (none created, none incremented), and the window of every rule
\* listed before it that the request does not skip counts one more than its
\* live count before the check.
C37_DeniedCheck ==
    [][(rlHist'.checks = rlHist.checks + 1 /\ ~rlLast'.result.allowed) =>
          LET request == rlLast'.request
              d == rlLast'.evals[Len(rlLast'.evals)].rule
              keyOf(i) == generateKey(request, rules[i].key)
          IN /\ keyOf(d) \in DOMAIN windows
             /\ ~Expired(now, windows[keyOf(d)].resetTime)
             /\ windows'[keyOf(d)] = windows[keyOf(d)]
             /\ \A i \in (d + 1)..Len(rules) :
                    IF keyOf(i) \in DOMAIN windows
                    THEN keyOf(i) \in DOMAIN windows' /\ windows'[keyOf(i)] = windows[keyOf(i)]
                    ELSE keyOf(i) \notin DOMAIN windows'
             /\ \A i \in 1..(d - 1) :
                    ~Skipped(rules[i], request) =>
                        /\ keyOf(i) \in DOMAIN windows'
                        /\ windows'[keyOf(i)].count = LiveCount(windows, keyOf(i), now) + 1]_vars

\* The per-user rule, second of three, has denied a request: the global
\* window has counted the request and the window of the client ip, whose rule
\* comes after, has not
C37_Witness ==
    /\ rlLast.op = "checkRateLimit"
    /\ ~rlLast.result.allowed
    /\ Len(rules) = 3
    /\ Len(rlLast.evals) = 2
    /\ rlLast.evals[1].result.allowed
    /\ windows[<<"global">>].count = 2
    /\ windows[generateKey(rlLast.request, rules[3].key)].count = 1

-----------------------------------------------------------------------------
(* The failure window of a CLOSED breaker *)

\* C38: under one config with threshold >= 1, in every reachable state a breaker
\* that is CLOSED holds fewer than `threshold` timestamps in its failure window,
\* whatever canExecute, recordSuccess, recordFailure, reset, resetAll and cleanup
\* calls came before.
C38_ClosedBelowThreshold ==
    \A k \in DOMAIN circuitBreakers :
        circuitBreakers[k].state = "CLOSED" =>
            Len(circuitBreakers[k].failureWindow) < cfg.threshold

\* C38 witness: a breaker that had been OPEN is CLOSED again and a failure
\* recorded since then sits in its window, one short of the threshold.
C38_Witness ==
    \E k \in DOMAIN circuitBreakers :
        /\ k \in hist.everOpen
        /\ circuitBreakers[k].state = "CLOSED"
        /\ lastOp.op = "recordFailure" /\ lastOp.key = k /\ lastOp.en
        /\ Len(circuitBreakers[k].failureWindow) = cfg.threshold - 1
        /\ Len(circuitBreakers[k].failureWindow) >= 1

-----------------------------------------------------------------------------
(* An OPEN breaker while the clock runs *)

\* Failures are recorded during the first MaxOpenTime milliseconds only.
MaxOpenTime == 2

Horizon == StartTime + MaxOpenTime

Waiting(k) ==
    /\ StateOf(circuitBreakers, k) = "OPEN"
    /\ circuitBreakers[k].nextAttemptTime # Null
    /\ now < circuitBreakers[k].nextAttemptTime

\* Date.now() moves on by a millisecond, up to the horizon and for as long as an
\* OPEN breaker waits for its retry time.
Advance ==
    /\ now < Horizon \/ \E k \in Keys : Waiting(k)
    /\ now' = now + 1
    /\ lastOp' = Op("tick", "", FALSE, FALSE)
    /\ UNCHANGED <<ticks, cfg, circuitBreakers, hist, rlVars, plVars, chVars, lbVars,
                   gwVars, hcVars, rtVars>>

FailureRecorded(k) ==
    /\ now < Horizon
    /\ RecordFailure(k, TRUE)

NextOpen ==
    \/ Advance
    \/ \E k \in Keys : CanExecute(k, TRUE)
    \/ \E k \in Keys : RecordSuccess(k, TRUE)
    \/ \E k \in Keys : FailureRecorded(k)
    \/ \E k \in Keys : Reset(k)
    \/ Cleanup

\* The clock runs, and canExecute keeps being called for every pair.
SpecOpen ==
    /\ Init
    /\ [][NextOpen]_vars
    /\ WF_vars(Advance)
    /\ \A k \in Keys : WF_vars(CanExecute(k, TRUE))

\* C39: an OPEN breaker always has its retry time set, a canExecute at or after
\* that time returns true and moves it to HALF_OPEN, and while the clock runs and
\* canExecute keeps being called, once failures stop being recorded every OPEN
\* breaker eventually leaves OPEN.
C39_NeverStuck ==
    /\ [](\A k \in Keys : StateOf(circuitBreakers, k) = "OPEN" =>
              circuitBreakers[k].nextAttemptTime # Null)
    /\ [][\A k \in Keys :
            (/\ Called("canExecute", k)
             /\ StateOf(circuitBreakers, k) = "OPEN"
             /\ now >= circuitBreakers[k].nextAttemptTime) =>
                lastOp'.ret /\ StateOf(circuitBreakers', k) = "HALF_OPEN"]_vars
    /\ \A k \in Keys :
          (StateOf(circuitBreakers, k) = "OPEN") ~> (StateOf(circuitBreakers, k) # "OPEN")

\* C39 witness: after the horizon, with no failure recorded any more, a canExecute
\* on an OPEN breaker whose retry time had come returned true and left it HALF_OPEN.
C39_Witness ==
    \E k \in Keys :
        /\ now >= Horizon
        /\ lastOp.op = "canExecute" /\ lastOp.key = k /\ lastOp.en
        /\ lastOp.pre = "OPEN" /\ lastOp.ret
        /\ StateOf(circuitBreakers, k) = "HALF_OPEN"
        /\ hist.openUntil[k] <= now

-----------------------------------------------------------------------------
(* The health monitor beside the route registry.  A route object is a place *)
(* in the sequence `routes`; the registry maps a route key to the object it  *)
(* holds, and a timer of the monitor holds the targets array of the object   *)
(* startHealthCheckForRoute was called with.                                  *)

MaxPuts == 1

MaxMonitorRounds == 1

MonitorIds == 1..(2 + MaxPuts)

MonitorProbes == MonitorIds \X (1..2)

\* The routes the constructor of RouteConfigService stores
StartupRoutes ==
    <<[key |-> "GET:/api/users", targets |-> DefaultRoutes("round-robin")["GET:/api/users"].targets],
      [key |-> "GET:/api/orders", targets |-> DefaultRoutes("round-robin")["GET:/api/orders"].targets]>>

\* The targets of a route the admin controller stores: one, configured healthy
PutTargets == <<createTarget("new-service", 1)>>

Registered(id) == \E k \in DOMAIN rt.routes : rt.routes[k] = id

\* Mutant: the timer looks the route of its key up when it fires.
capturedTargets_Current(registry, heap, id) ==
    IF heap[id].key \in DOMAIN registry THEN registry[heap[id].key] ELSE id

\* The object whose targets the callbacks of startHealthCheckForRoute(routeId,
\* healthConfig, targets) probe: the array they closed over
capturedTargets(registry, heap, id) == id

\* performHealthChecks(routeId, healthConfig, targets) on the targets of an object
checkTargets(h, id) ==
    [h EXCEPT !.inflight = [p \in MonitorProbes |->
        IF p[1] = id /\ p[2] \in DOMAIN routes[id].targets THEN @[p] + 1 ELSE @[p]]]

InitMonitor ==
    /\ now = StartTime
    /\ ticks = 0
    /\ cfg = CHOOSE c \in Configs : TRUE
    /\ circuitBreakers = [k \in {} |-> createCircuitBreaker(k)]
    /\ lastOp = NoOp
    /\ hist = HistInit
    /\ rules = <<>>
    /\ windows = NoWindows
    /\ rlLast = NoCheck
    /\ rlHist = RLHistInit
    /\ route = NoRoute
    /\ req = NoRequest
    /\ pipeHist = PipeHistInit
    /\ CacheIdle
    /\ routes = StartupRoutes
    /\ roundRobinCounters = <<>>
    /\ connectionCounts = <<>>
    /\ lbLast = NoSelection
    /\ lbHist = <<>>
    /\ GatewayIdle
    /\ rt = [routes |-> [k \in RouteKeys |-> IF k = "GET:/api/users" THEN 1 ELSE 2], puts |-> 0]
    /\ hc = [isShuttingDown |-> FALSE, started |-> FALSE, healthCheckIntervals |-> {},
             immediates |-> {}, inflight |-> [p \in MonitorProbes |-> 0],
             rounds |-> [id \in MonitorIds |-> MaxMonitorRounds],
             bound |-> {}, forced |-> {}, late |-> {}]

\* onModuleInit: initializeHealthChecks calls startHealthCheckForRoute for
\* every route of getAllRoutes
InitializeHealthChecks ==
    LET ids == {id \in DOMAIN routes : Registered(id)}
    IN /\ ~hc.started
       /\ hc' = [hc EXCEPT !.started = TRUE, !.healthCheckIntervals = ids,
                           !.immediates = ids, !.bound = ids]
       /\ UNCHANGED <<now, ticks, cbVars, rlVars, plVars, chVars, lbVars, gwVars, rtVars>>

\* The callback of setImmediate
ImmediateRuns(id) ==
    /\ id \in hc.immediates
    /\ hc' = checkTargets([hc EXCEPT !.immediates = @ \ {id}],
                          capturedTargets(rt.routes, routes, id))
    /\ UNCHANGED <<now, ticks, cbVars, rlVars, plVars, chVars, lbVars, gwVars, rtVars>>

\* The callback of setInterval.  The interval (30000 ms) is longer than the
\* time a probe is given (AbortSignal.timeout(5000)), so the probes of the
\* round before have been answered.
TimerFires(id) ==
    /\ id \in hc.healthCheckIntervals
    /\ hc.rounds[id] > 0
    /\ id \notin hc.immediates
    /\ \A i \in 1..2 : hc.inflight[<<id, i>>] = 0
    /\ LET h == [hc EXCEPT !.rounds[id] = @ - 1,
                           !.late = IF Registered(id) THEN @ ELSE @ \cup {id}]
       IN hc' = IF hc.isShuttingDown THEN h
                ELSE checkTargets(h, capturedTargets(rt.routes, routes, id))
    /\ UNCHANGED <<now, ticks, cbVars, rlVars, plVars, chVars, lbVars, gwVars, rtVars>>

\* checkTargetHealth after its await.  The outcomes of a probe are those of
\* ProbeCompletes; beside the registry every probe fails, the outcome that
\* changes a target that is configured healthy.
ProbeAnswers(id, i, isHealthy) ==
    /\ hc.inflight[<<id, i>>] > 0
    /\ routes' = [routes EXCEPT ![id].targets[i] = updateTargetHealthStatus(@, isHealthy, 1)]
    /\ hc' = [hc EXCEPT !.inflight[<<id, i>>] = @ - 1]
    /\ UNCHANGED <<now, ticks, cbVars, rlVars, plVars, chVars,
                   roundRobinCounters, connectionCounts, lbLast, lbHist, gwVars, rtVars>>

\* AdminController.createRoute: setRoute stores a new route object under the key
CreateRoute(routeKey) ==
    /\ hc.started
    /\ rt.puts < MaxPuts
    /\ routes' = Append(routes, [key |-> routeKey, targets |-> PutTargets])
    /\ rt' = [routes |-> MapPut(rt.routes, routeKey, Len(routes) + 1), puts |-> rt.puts + 1]
    /\ UNCHANGED <<now, ticks, cbVars, rlVars, plVars, chVars,
                   roundRobinCounters, connectionCounts, lbLast, lbHist, gwVars, hcVars>>

\* AdminController.deleteRoute: removeRoute
DeleteRoute(routeKey) ==
    /\ hc.started
    /\ routeKey \in DOMAIN rt.routes
    /\ rt' = [rt EXCEPT !.routes = MapDelete(@, {routeKey})]
    /\ UNCHANGED <<now, ticks, cbVars, rlVars, plVars, chVars, lbVars, gwVars, hcVars>>

\* AdminController.forceHealthCheck of a registered route: once for an object,
\* and for the objects without a timer, which nothing else probes
ForceHealthCheck(id) ==
    /\ hc.started
    /\ id \in DOMAIN routes
    /\ Registered(id)
    /\ id \notin hc.bound
    /\ id \notin hc.forced
    /\ hc' = checkTargets([hc EXCEPT !.forced = @ \cup {id}], id)
    /\ UNCHANGED <<now, ticks, cbVars, rlVars, plVars, chVars, lbVars, gwVars, rtVars>>

\* onModuleDestroy
Shutdown ==
    /\ hc.started
    /\ ~hc.isShuttingDown
    /\ hc' = [hc EXCEPT !.isShuttingDown = TRUE, !.healthCheckIntervals = {}]
    /\ UNCHANGED <<now, ticks, cbVars, rlVars, plVars, chVars, lbVars, gwVars, rtVars>>

NextMonitor ==
    \/ InitializeHealthChecks
    \/ \E id \in MonitorIds : ImmediateRuns(id)
    \/ \E id \in MonitorIds : TimerFires(id)
    \/ \E id \in MonitorIds, i \in 1..2 : ProbeAnswers(id, i, FALSE)
    \/ \E routeKey \in RouteKeys : CreateRoute(routeKey)
    \/ \E routeKey \in RouteKeys : DeleteRoute(routeKey)
    \/ \E id \in MonitorIds : ForceHealthCheck(id)
    \/ Shutdown

\* The next callback of the checks of an object: the queued initial check, the
\* answer of a probe, or the timer
MonitorStep(id) ==
    \/ ImmediateRuns(id)
    \/ \E i \in 1..2 : ProbeAnswers(id, i, FALSE)
    \/ TimerFires(id)

\* For the objects of the startup routes the event loop keeps running the
\* callbacks: a queued check runs, a probe is answered within its timeout, and
\* an armed timer fires.
SpecMonitor ==
    /\ InitMonitor
    /\ [][NextMonitor]_vars
    /\ \A id \in {1, 2} : WF_vars(MonitorStep(id))

\* C40: the timers are those of the route objects that exist at startup.  An
\* object that setRoute stores afterwards never has a timer or a queued initial
\* check, and unless a check is forced for it no probe of it is in flight and
\* its targets stay as configured.  Until the shutdown the timers of the
\* startup objects stay armed whether or not the registry still holds the
\* object, a timer that fires probes the targets of its own object, and the
\* timer of an object that has left the registry fires after that (hc.late)
\* unless the shutdown comes first.
C40_BoundAtStartup ==
    /\ [](\A id \in DOMAIN routes :
             (hc.started /\ id \notin hc.bound) =>
                /\ id \notin hc.healthCheckIntervals
                /\ id \notin hc.immediates
                /\ id \notin hc.forced =>
                      /\ \A i \in 1..2 : hc.inflight[<<id, i>>] = 0
                      /\ routes[id].targets = PutTargets)
    /\ []((hc.started /\ ~hc.isShuttingDown) =>
             hc.healthCheckIntervals = {1, 2} /\ hc.bound = {1, 2})
    /\ [][\A id \in MonitorIds :
            hc'.rounds[id] < hc.rounds[id] =>
                \A p \in MonitorProbes :
                    hc'.inflight[p] = hc.inflight[p] + (IF p[1] = id THEN 1 ELSE 0)]_vars
    /\ \A id \in {1, 2} :
          (hc.started /\ ~Registered(id) /\ hc.rounds[id] > 0 /\ id \notin hc.late)
              ~> (hc.isShuttingDown \/ id \in hc.late)

\* C40 witness: the object of a route that was replaced had its timer fire
\* after it had left the registry and a probe of it has failed, while the
\* object that replaced it is registered, unprobed and as configured.
C40_Witness ==
    \E id \in {1, 2} :
        /\ id \in hc.late
        /\ ~hc.isShuttingDown
        /\ ~routes[id].targets[1].isHealthy
        /\ Len(routes) > 2
        /\ routes[3].key = routes[id].key
        /\ Registered(3)
        /\ routes[3].targets = PutTargets

=========================================================================
